---------------------------- MODULE Spec2Model ----------------------------
(***************************************************************************)
(* A model of the AI SEO content assistant: the serverless transport       *)
(* handler (api/gemini), its response normalizers, the client call wrapper *)
(* (services/geminiService.ts), the access gate of the single-page UI      *)
(* (App.tsx, PasswordModal.tsx) and the three phases of the UI with their  *)
(* stage calls (App.tsx, PreparationStep, CreationStep, AnalysisStep).     *)
(***************************************************************************)
EXTENDS Integers, Sequences, FiniteSets, Bags, TLC

(***************************************************************************)
(* JavaScript values.  Every value is a tagged record, so that values of   *)
(* different JavaScript types can be compared and held in one set.         *)
(***************************************************************************)
Undefined == [t |-> "undefined"]
Null == [t |-> "null"]
Bool(b) == [t |-> "bool", b |-> b]
Num(n) == [t |-> "num", n |-> n]
Str(s) == [t |-> "str", s |-> s]
Arr(a) == [t |-> "arr", a |-> a]
Obj(o) == [t |-> "obj", o |-> o]
\* A string held as text (a sequence of symbols, see below): the free-text
\* results of the oracle.
Text(x) == [t |-> "text", x |-> x]

\* JavaScript's ToBoolean, as used by &&, || and ?: in the sources.
Truthy(v) ==
    CASE v.t = "undefined" -> FALSE
      [] v.t = "null" -> FALSE
      [] v.t = "bool" -> v.b
      [] v.t = "num" -> v.n # 0
      [] v.t = "str" -> v.s # ""
      [] v.t = "text" -> v.x # <<>>
      [] OTHER -> TRUE

\* Property read v.k: undefined when the value has no such own property.
\* (Reading a property of undefined or null throws; callers guard that.)
Get(v, k) == IF v.t = "obj" /\ k \in DOMAIN v.o THEN v.o[k] ELSE Undefined

IsArray(v) == v.t = "arr"

\* typeof v === 'object' (true of null, arrays and objects).
TypeofObject(v) == v.t \in {"null", "arr", "obj"}

(***************************************************************************)
(* Text.  A text is a sequence of symbols.  A symbol is one character (a   *)
(* backtick, a letter of the language tag, a whitespace character, a       *)
(* character that belongs to no JSON document) or one whole serialized     *)
(* JSON document, named as in JsonDocs below.  A JSON document neither     *)
(* starts nor ends with a backtick, so the fence pattern of safeJsonParse  *)
(* never matches inside one.                                               *)
(***************************************************************************)
\* The backtick character (the lexer of TLA+ admits none in a string).
Backtick == "backtick"
Newline == "\n"
Space == " "
Garbage == "x"
Whitespace == {Newline, Space}

Fence == <<Backtick, Backtick, Backtick>>
JsonTag == <<"j", "s", "o", "n">>

\* The value of each JSON document the oracle is taken to return.
KeywordItem ==
    Obj([keyword |-> Str("k"), searchVolume |-> Str("high"),
         difficulty |-> Str("low"), currentRank |-> Str("15"),
         recommendation |-> Str("r")])
CompetitorItem == Obj([title |-> Str("t"), url |-> Str("u"), summary |-> Str("s")])
OutlineFull ==
    Obj([title |-> Str("t"),
         sections |-> Arr(<<Obj([heading |-> Str("h"), points |-> Arr(<<Str("p")>>)])>>)])
KeyMetrics ==
    Obj([monthlyPV |-> Str("10,500"), users |-> Str("8,200"),
         cvr |-> Str("1.5%"), bounceRate |-> Str("45%")])
TrafficSources == Arr(<<Obj([source |-> Str("search"), percentage |-> Num(100)])>>)
KeywordPerformance == Arr(<<Obj([keyword |-> Str("k"), estimatedPV |-> Num(7)])>>)
ActionPlan == Arr(<<Obj([action |-> Str("a"), justification |-> Str("j")])>>)

JsonDocs ==
    [ KeywordsFull |-> Obj([keywordAnalysis |-> Arr(<<KeywordItem>>), summary |-> Str("s")]),
      KeywordsNoSummary |-> Obj([keywordAnalysis |-> Arr(<<KeywordItem>>)]),
      KeywordsNoAnalysis |-> Obj([summary |-> Str("s")]),
      KeywordsEmptySummary |-> Obj([keywordAnalysis |-> Arr(<<KeywordItem>>), summary |-> Str("")]),
      KeywordsItemPartial |-> Obj([keywordAnalysis |-> Arr(<<Obj([keyword |-> Str("k")])>>),
                                   summary |-> Str("s")]),
      ArticlesFull |-> Arr(<<CompetitorItem>>),
      ArticlesItemPartial |-> Arr(<<Obj([title |-> Str("t")])>>),
      ArticlesEmpty |-> Arr(<<>>),
      DraftFull |-> Obj([outline |-> OutlineFull, introduction |-> Str("i")]),
      DraftNoIntroduction |-> Obj([outline |-> OutlineFull]),
      DraftNoOutline |-> Obj([introduction |-> Str("i")]),
      DraftNoSections |-> Obj([outline |-> Obj([title |-> Str("t")]), introduction |-> Str("i")]),
      DraftEmptySections |-> Obj([outline |-> Obj([title |-> Str("t"), sections |-> Arr(<<>>)]),
                                  introduction |-> Str("i")]),
      PostsFull |-> Obj([x |-> Str("x"), facebook |-> Str("f"), linkedin |-> Str("l"),
                         hashtags |-> Arr(<<Str("#h")>>)]),
      PostsNoHashtags |-> Obj([x |-> Str("x"), facebook |-> Str("f"), linkedin |-> Str("l")]),
      PostsNoX |-> Obj([facebook |-> Str("f"), linkedin |-> Str("l"),
                        hashtags |-> Arr(<<Str("#h")>>)]),
      ReportFull |-> Obj([summary |-> Str("s"), keyMetrics |-> KeyMetrics,
                          trafficSources |-> TrafficSources,
                          keywordPerformance |-> KeywordPerformance,
                          actionPlan |-> ActionPlan]),
      ReportNoKeyMetrics |-> Obj([summary |-> Str("s"), trafficSources |-> TrafficSources,
                                  keywordPerformance |-> KeywordPerformance,
                                  actionPlan |-> ActionPlan]),
      ReportNoTraffic |-> Obj([summary |-> Str("s"), keyMetrics |-> KeyMetrics,
                               keywordPerformance |-> KeywordPerformance,
                               actionPlan |-> ActionPlan]),
      ReportNoActionPlan |-> Obj([summary |-> Str("s"), keyMetrics |-> KeyMetrics,
                                  trafficSources |-> TrafficSources,
                                  keywordPerformance |-> KeywordPerformance]),
      EmptyObject |-> Obj(<<>>),
      JsonNull |-> Null,
      JsonNumber |-> Num(1),
      JsonString |-> Str("text") ]

JsonDocNames == DOMAIN JsonDocs

(***************************************************************************)
(* String helpers.                                                         *)
(***************************************************************************)
StartsWith(s, p) == Len(s) >= Len(p) /\ SubSeq(s, 1, Len(p)) = p

EndsWith(s, p) == Len(s) >= Len(p) /\ SubSeq(s, Len(s) - Len(p) + 1, Len(s)) = p

Drop(s, n) == SubSeq(s, n + 1, Len(s))

\* The longest run of whitespace at the head of s is removed (the greedy \s*).
RECURSIVE SkipWhitespace(_)
SkipWhitespace(s) ==
    IF s # <<>> /\ Head(s) \in Whitespace THEN SkipWhitespace(Tail(s)) ELSE s

RECURSIVE SkipWhitespaceEnd(_)
SkipWhitespaceEnd(s) ==
    IF s # <<>> /\ s[Len(s)] \in Whitespace
    THEN SkipWhitespaceEnd(SubSeq(s, 1, Len(s) - 1))
    ELSE s

\* JSON.parse: whitespace around the document is allowed, anything else is
\* a SyntaxError.
JSONparse(s) ==
    LET core == SkipWhitespaceEnd(SkipWhitespace(s))
    IN  IF Len(core) = 1 /\ core[1] \in JsonDocNames
        THEN [threw |-> FALSE, value |-> JsonDocs[core[1]]]
        ELSE [threw |-> TRUE, value |-> Undefined]

(***************************************************************************)
(* Response normalizer.                                                    *)
(***************************************************************************)
\* jsonString.replace(/^```json\s*|```$/g, ''): a leading fence with the
\* json tag and the whitespace after it, and a fence at the very end of the
\* string, are removed.  Without the m flag, ^ and $ match only at the two
\* ends of the whole string.
FenceReplace(jsonString) ==
    LET lead == Fence \o JsonTag
        afterLead == IF StartsWith(jsonString, lead)
                     THEN SkipWhitespace(Drop(jsonString, Len(lead)))
                     ELSE jsonString
    IN  IF EndsWith(afterLead, Fence)
        THEN SubSeq(afterLead, 1, Len(afterLead) - Len(Fence))
        ELSE afterLead

\* try { return JSON.parse(clean) } catch { return null }
safeJsonParse(jsonString) ==
    LET parsed == JSONparse(FenceReplace(jsonString))
    IN  IF parsed.threw THEN Null ELSE parsed.value

\* The return value of each stage for the text of the oracle's response
\* (response.text; undefined and '' are both the empty text here, as every
\* stage reads it through "|| ''" or "|| null").
analyzeKeywordsReturn(text) ==
    LET result == safeJsonParse(text)
    IN  IF Truthy(result) /\ Truthy(Get(result, "keywordAnalysis"))
           /\ Truthy(Get(result, "summary"))
        THEN result ELSE Null

findTopCompetitorArticlesReturn(text) ==
    LET result == safeJsonParse(text)
    IN  IF Truthy(result) /\ IsArray(result) THEN result ELSE Null

createCompositeArticleReturn(text) ==
    LET result == safeJsonParse(text)
    IN  IF Truthy(result) /\ TypeofObject(result) /\ ~IsArray(result)
           /\ Truthy(Get(result, "outline"))
        THEN result ELSE Null

generateFullArticleReturn(text) == IF text # <<>> THEN Text(text) ELSE Null

generateSocialMediaPostsReturn(text) ==
    LET result == safeJsonParse(text)
    IN  IF Truthy(result) /\ Truthy(Get(result, "x")) /\ Truthy(Get(result, "facebook"))
           /\ Truthy(Get(result, "linkedin")) /\ Truthy(Get(result, "hashtags"))
        THEN result ELSE Null

reviseFullArticleReturn(text) == IF text # <<>> THEN Text(text) ELSE Null

analyzePerformanceDataReturn(text) ==
    LET result == safeJsonParse(text)
    IN  IF Truthy(result) /\ Truthy(Get(result, "summary"))
           /\ Truthy(Get(result, "actionPlan"))
        THEN result ELSE Null

StructuredStages ==
    {"analyzeKeywords", "findTopCompetitorArticles", "createCompositeArticle",
     "generateSocialMediaPosts", "analyzePerformanceData"}

FreeTextStages == {"generateFullArticle", "reviseFullArticle"}

GenerationOperations == StructuredStages \cup FreeTextStages

StageReturn(operation, text) ==
    CASE operation = "analyzeKeywords" -> analyzeKeywordsReturn(text)
      [] operation = "findTopCompetitorArticles" -> findTopCompetitorArticlesReturn(text)
      [] operation = "createCompositeArticle" -> createCompositeArticleReturn(text)
      [] operation = "generateFullArticle" -> generateFullArticleReturn(text)
      [] operation = "generateSocialMediaPosts" -> generateSocialMediaPostsReturn(text)
      [] operation = "reviseFullArticle" -> reviseFullArticleReturn(text)
      [] operation = "analyzePerformanceData" -> analyzePerformanceDataReturn(text)

\* The fields each stage's responseSchema declares as required, at the top
\* level of the result.
RequiredFields(operation) ==
    CASE operation = "analyzeKeywords" -> {"keywordAnalysis", "summary"}
      [] operation = "findTopCompetitorArticles" -> {}
      [] operation = "createCompositeArticle" -> {"outline", "introduction"}
      [] operation = "generateSocialMediaPosts" -> {"x", "facebook", "linkedin", "hashtags"}
      [] operation = "analyzePerformanceData" ->
            {"summary", "keyMetrics", "trafficSources", "keywordPerformance", "actionPlan"}

(***************************************************************************)
(* State.                                                                  *)
(***************************************************************************)
VARIABLES
    appPassword,    \* process.env.APP_PASSWORD: Undefined (unset) or a string
    apiKey,         \* process.env.API_KEY: Undefined (unset) or a string
    caller,         \* who sent the request the handler served last
    req,            \* that request: [method, body]
    oracle,         \* what the oracle did for it: NotInvoked or an outcome
    sent,           \* the responses the handler sent for it, in order
    escaped,        \* whether an exception left the handler
    verified,       \* the callers that verifyPassword has answered success=true
    session,        \* the browser session (a tab's lifetime) the UI runs in
    mounts,         \* how many times the app was mounted in this session
    sessionFlag,    \* sessionStorage.getItem(AUTH_KEY): Null or Str("true")
    isAuthenticated,\* App's state
    password,       \* PasswordModal's state: the input's value
    error,          \* PasswordModal's state: the message shown
    isLoading,      \* PasswordModal's state
    call,           \* the verifyPassword call the modal is awaiting, if any
    normStage,      \* normalizer runs: the stage
    normLead,       \* the text before the content the oracle returned
    normBody,       \* that content
    normTrail,      \* the text after it
    normResult,     \* NotRun, or what the stage returned
    currentStep,    \* App's state: the phase shown
    creationDraft,  \* App's state: the draft handed to the Creation phase
    preparation,    \* PreparationStep's state (the mounted instance's)
    creation,       \* CreationStep's state (the mounted instance's)
    analysis,       \* AnalysisStep's state (the mounted instance's)
    pending,        \* the stage calls awaiting their response (a bag)
    lastEvent,      \* the handler or continuation that ran last
    revised,        \* whether the mounted CreationStep was asked for a revision
                    \* since it last started a generation
    link            \* the download link downloadCSV clicked last, or Null

envVars == <<appPassword, apiKey>>
handlerVars == <<caller, req, oracle, sent, escaped, verified>>
gateVars == <<session, mounts, sessionFlag, isAuthenticated, password, error, isLoading, call>>
normVars == <<normStage, normLead, normBody, normTrail, normResult>>
uiVars == <<currentStep, creationDraft, preparation, creation, analysis, pending, lastEvent, revised>>
csvVars == <<link>>
vars == <<envVars, handlerVars, gateVars, normVars, uiVars, csvVars>>

(***************************************************************************)
(* Transport handler.                                                      *)
(***************************************************************************)
Response(status, message, data) == [status |-> status, error |-> message, data |-> data]

ErrorResponse(status, message) == Response(status, message, Undefined)

DataResponse(data) == Response(200, "", data)

NotInvoked == [invoked |-> FALSE, threw |-> FALSE, text |-> <<>>]

\* What one run of the handler did: the responses it sent, whether an
\* exception left it, and whether it called the oracle.
Answered(response, invoked) ==
    [sent |-> <<response>>, escaped |-> FALSE, oracleInvoked |-> invoked]

Thrown == [sent |-> <<>>, escaped |-> TRUE, oracleInvoked |-> FALSE]

IsNullish(v) == v.t \in {"undefined", "null"}

\* verifyPassword with the guard "appPassword === undefined" in place of
\* "!appPassword": an empty secret is compared like any other.
verifyPasswordUnsetOnly(params) ==
    IF appPassword = Undefined
    THEN Answered(DataResponse(Obj([success |-> Bool(FALSE)])), FALSE)
    ELSE IF IsNullish(params)
    THEN Answered(ErrorResponse(500, "Internal server error during authentication."), FALSE)
    ELSE Answered(DataResponse(Obj([success |-> Bool(Get(params, "password") = appPassword)])),
                  FALSE)

\* The operation === 'verifyPassword' branch.  With a secret configured,
\* destructuring params throws when params is undefined or null, inside the
\* branch's own try.
verifyPassword(params) ==
    IF ~Truthy(appPassword)
    THEN Answered(DataResponse(Obj([success |-> Bool(FALSE)])), FALSE)
    ELSE IF IsNullish(params)
    THEN Answered(ErrorResponse(500, "Internal server error during authentication."), FALSE)
    ELSE LET supplied == Get(params, "password")
             success == supplied = appPassword
         IN  Answered(DataResponse(Obj([success |-> Bool(success)])), FALSE)

\* Whether a stage throws a TypeError before it calls the oracle: reading a
\* property of an undefined params or draft, or calling .map on a value
\* that is no array.
StageThrowsBeforeOracle(operation, params) ==
    \/ IsNullish(params)
    \/ /\ operation = "analyzeKeywords"
       /\ ~IsArray(Get(params, "competitorUrls"))
    \/ /\ operation = "createCompositeArticle"
       /\ ~IsArray(Get(params, "articles"))
    \/ /\ operation = "generateFullArticle"
       /\ LET draft == Get(params, "draft")
              outline == Get(draft, "outline")
              sections == Get(outline, "sections")
          IN  \/ IsNullish(draft)
              \/ IsNullish(outline)
              \/ ~IsArray(sections)
              \/ \E i \in 1..Len(sections.a) : ~IsArray(Get(sections.a[i], "points"))

InternalError == "An internal server error occurred"

\* dispatch with a null stage result answered as an error.
dispatchNullIsError(operation, params, o) ==
    IF operation.t = "str" /\ operation.s \in GenerationOperations
    THEN IF StageThrowsBeforeOracle(operation.s, params)
         THEN Answered(ErrorResponse(500, InternalError), FALSE)
         ELSE IF o.threw
         THEN Answered(ErrorResponse(500, InternalError), TRUE)
         ELSE IF StageReturn(operation.s, o.text) = Null
         THEN Answered(ErrorResponse(502, InternalError), TRUE)
         ELSE Answered(DataResponse(StageReturn(operation.s, o.text)), TRUE)
    ELSE Answered(ErrorResponse(400, "Invalid operation specified."), FALSE)

\* dispatch without the default case: an unknown operation falls through
\* to res.status(200).json({ data }) with data never assigned.
dispatchNoDefault(operation, params, o) ==
    IF operation.t = "str" /\ operation.s \in GenerationOperations
    THEN IF StageThrowsBeforeOracle(operation.s, params)
         THEN Answered(ErrorResponse(500, InternalError), FALSE)
         ELSE IF o.threw
         THEN Answered(ErrorResponse(500, InternalError), TRUE)
         ELSE Answered(DataResponse(StageReturn(operation.s, o.text)), TRUE)
    ELSE Answered(DataResponse(Undefined), FALSE)

\* try { switch (operation) ... res.status(200).json({ data }) } catch ...
\* o is what the oracle does if it is called.
dispatch(operation, params, o) ==
    IF operation.t = "str" /\ operation.s \in GenerationOperations
    THEN IF StageThrowsBeforeOracle(operation.s, params)
         THEN Answered(ErrorResponse(500, InternalError), FALSE)
         ELSE IF o.threw
         THEN Answered(ErrorResponse(500, InternalError), TRUE)
         ELSE Answered(DataResponse(StageReturn(operation.s, o.text)), TRUE)
    ELSE Answered(ErrorResponse(400, "Invalid operation specified."), FALSE)

MissingCredential ==
    Answered(ErrorResponse(500, "API_KEY environment variable not set on the server"), FALSE)

\* The handler with the API_KEY check moved above the verifyPassword branch.
handlerCredentialFirst(r, o) ==
    IF r.method # "POST"
    THEN Answered(ErrorResponse(405, "Method Not Allowed"), FALSE)
    ELSE IF IsNullish(r.body)
    THEN Thrown
    ELSE IF ~Truthy(apiKey)
    THEN MissingCredential
    ELSE IF Get(r.body, "operation") = Str("verifyPassword")
    THEN verifyPassword(Get(r.body, "params"))
    ELSE dispatch(Get(r.body, "operation"), Get(r.body, "params"), o)

\* The handler with the body destructured before the method is checked.
handlerBodyFirst(r, o) ==
    IF IsNullish(r.body)
    THEN Thrown
    ELSE IF r.method # "POST"
    THEN Answered(ErrorResponse(405, "Method Not Allowed"), FALSE)
    ELSE IF Get(r.body, "operation") = Str("verifyPassword")
    THEN verifyPassword(Get(r.body, "params"))
    ELSE IF ~Truthy(apiKey)
    THEN MissingCredential
    ELSE dispatch(Get(r.body, "operation"), Get(r.body, "params"), o)

\* export default async function handler(req, res)
handler(r, o) ==
    IF r.method # "POST"
    THEN Answered(ErrorResponse(405, "Method Not Allowed"), FALSE)
    ELSE IF IsNullish(r.body)
    THEN Thrown
    ELSE LET operation == Get(r.body, "operation")
             params == Get(r.body, "params")
         IN  IF operation = Str("verifyPassword")
             THEN verifyPassword(params)
             ELSE IF ~Truthy(apiKey)
             THEN MissingCredential
             ELSE dispatch(operation, params, o)

(***************************************************************************)
(* The environment and the requests that reach the handler.                *)
(***************************************************************************)
Secret == Str("s1")

\* process.env.APP_PASSWORD and process.env.API_KEY: unset, empty or set.
AppPasswordValues == {Undefined, Str(""), Secret}
ApiKeyValues == {Undefined, Str(""), Str("key")}

Callers == {"c1", "c2"}
Methods == {"POST", "GET"}
OperationNames == GenerationOperations \cup {"verifyPassword", "bogus"}

\* Passwords a caller may supply: strings and a value that is no string.
SuppliedPasswords == {Str(""), Secret, Str("s2"), Num(1)}

\* The params each stage's client function sends (geminiService.ts).
FullParams(operation) ==
    CASE operation = "analyzeKeywords" ->
            {Obj([userUrl |-> Str("https://a.com"),
                  competitorUrls |-> Arr(<<Str("https://b.com")>>)])}
      [] operation = "findTopCompetitorArticles" -> {Obj([topic |-> Str("shoes")])}
      [] operation = "createCompositeArticle" ->
            {Obj([topic |-> Str("shoes"), articles |-> Arr(<<CompetitorItem>>)])}
      [] operation = "generateFullArticle" ->
            {Obj([draft |-> JsonDocs[d]]) :
                d \in {"DraftFull", "DraftNoIntroduction", "DraftNoSections",
                       "DraftEmptySections"}}
      [] operation = "generateSocialMediaPosts" -> {Obj([article |-> Text(<<Garbage>>)])}
      [] operation = "reviseFullArticle" ->
            {Obj([currentArticle |-> Text(<<Garbage>>), revisionPrompt |-> Str("shorter")])}
      [] operation = "analyzePerformanceData" -> {Obj([articleUrl |-> Str("https://a.com/p")])}
      [] operation = "verifyPassword" -> {Obj([password |-> v]) : v \in SuppliedPasswords}
      [] OTHER -> {}

Bodies ==
    {Undefined, Obj(<<>>)}
    \cup {Obj([operation |-> Str(op)]) : op \in OperationNames}
    \cup {Obj([operation |-> Str(op), params |-> Obj(<<>>)]) : op \in OperationNames}
    \cup UNION {{Obj([operation |-> Str(op), params |-> ps]) : ps \in FullParams(op)} :
                    op \in OperationNames}

Requests == [method : Methods, body : Bodies]

NoRequest == [method |-> "NONE", body |-> Undefined]

\* What the oracle (ai.models.generateContent) may do when called: throw,
\* or return a response whose text is empty, a JSON document, a fenced
\* JSON document or no JSON at all.
OracleDocs ==
    {"KeywordsFull", "ArticlesFull", "DraftFull", "DraftNoIntroduction", "PostsFull",
     "ReportFull", "JsonNull"}

OracleTexts ==
    {<<>>, <<Garbage>>}
    \cup {<<d>> : d \in OracleDocs}
    \cup {Fence \o JsonTag \o <<Newline, "DraftFull", Newline>> \o Fence}

OracleOutcomes ==
    {[invoked |-> TRUE, threw |-> TRUE, text |-> <<>>]}
    \cup {[invoked |-> TRUE, threw |-> FALSE, text |-> x] : x \in OracleTexts}

(***************************************************************************)
(* Initial values of the three parts of the state.                         *)
(***************************************************************************)
EnvInit ==
    /\ appPassword \in AppPasswordValues
    /\ apiKey \in ApiKeyValues

HandlerInit ==
    /\ caller = "c1"
    /\ req = NoRequest
    /\ oracle = NotInvoked
    /\ sent = <<>>
    /\ escaped = FALSE
    /\ verified = {}

\* What comes back to fetch: a rejection (network failure), or a response
\* with a status and a body that is JSON (with its data member) or not.
Reply(kind, status, json, data) ==
    [kind |-> kind, status |-> status, json |-> json, data |-> data]

NoReply == Reply("none", 0, FALSE, Undefined)

NoCall == [stage |-> "none", password |-> "", reply |-> NoReply]

GateInit ==
    /\ session = 1
    /\ mounts = 1
    /\ sessionFlag = Null
    /\ isAuthenticated = FALSE
    /\ password = ""
    /\ error = ""
    /\ isLoading = FALSE
    /\ call = NoCall

\* No report was downloaded yet.
CsvIdle == link = Null

NotRun == [t |-> "notrun"]

NormIdle ==
    /\ normStage = "analyzeKeywords"
    /\ normLead = <<>>
    /\ normBody = <<>>
    /\ normTrail = <<>>
    /\ normResult = NotRun

(***************************************************************************)
(* Initial state of the three phases of the UI.  Only the component of the *)
(* active phase is mounted; a component that is not mounted has no state,  *)
(* and its variable holds the state it will have when it mounts.           *)
(***************************************************************************)
AppStep == [Preparation |-> "Preparation", Creation |-> "Creation", Analysis |-> "Analysis"]

AppSteps == {AppStep.Preparation, AppStep.Creation, AppStep.Analysis}

\* PreparationStep's useState calls.
PreparationInit ==
    [stage |-> "idle",
     error |-> Null,
     userUrl |-> <<>>,
     keywordAnalysis |-> Null,
     topic |-> <<>>,
     competitorArticles |-> Null]

\* CreationStep's useState calls.
CreationInit(initialDraft) ==
    [draft |-> initialDraft,
     fullArticle |-> Null,
     socialPosts |-> Null,
     isGenerating |-> FALSE,
     isRevising |-> FALSE,
     revisionPrompt |-> <<>>,
     error |-> Null]

\* AnalysisStep's useState calls.
AnalysisInit ==
    [isLoading |-> FALSE,
     error |-> Null,
     articleUrl |-> <<>>,
     socialUrl |-> <<>>,
     analysis |-> Null]

\* The results the three phases hold.
Held ==
    [keywordAnalysis |-> preparation.keywordAnalysis,
     competitorArticles |-> preparation.competitorArticles,
     draft |-> creation.draft,
     fullArticle |-> creation.fullArticle,
     socialPosts |-> creation.socialPosts,
     analysis |-> analysis.analysis]

\* A stage call awaiting its response: the operation and parameters callApi
\* posts, whether the component instance that awaits it is still mounted
\* ("mounted"), was reset by its effect since ("reset") or is gone
\* ("unmounted"), and the results held when it was issued.
StageCall(operation, params, owner, held) ==
    [operation |-> operation, params |-> params, owner |-> owner, held |-> held]

NoStageCall == StageCall("none", Undefined, "none", Undefined)

\* What ran last: a handler up to its await or return (its name, with the
\* operation of the call it issued, if any), the rest of a handler on the
\* response to a call ("resume", with the call's operation, owner and held
\* results, and the result awaited), an input's onChange ("input") or a
\* click in the navigation bar ("navigate").
Event(name, operation, owner, result, held) ==
    [name |-> name, operation |-> operation, owner |-> owner, result |-> result, held |-> held]

NoEvent == Event("none", "none", "none", Undefined, Undefined)

Handled(name, issued) == Event(name, issued.operation, issued.owner, Undefined, Undefined)

Resumed(c, result) == Event("resume", c.operation, c.owner, result, c.held)

UIInit ==
    /\ currentStep = AppStep.Preparation
    /\ creationDraft = Null
    /\ preparation = PreparationInit
    /\ creation = CreationInit(Null)
    /\ analysis = AnalysisInit
    /\ pending = EmptyBag
    /\ lastEvent = NoEvent
    /\ revised = FALSE

(***************************************************************************)
(* The transport boundary, as any HTTP client sees it.                     *)
(***************************************************************************)
\* A caller sends request r; the handler runs on it to its end.  The oracle
\* outcome o is what the oracle does if the handler calls it.
Serve(c, r, o) ==
    LET run == handler(r, o)
        succeeded == /\ run.sent # <<>>
                     /\ Get(run.sent[1].data, "success") = Bool(TRUE)
    IN  /\ caller' = c
        /\ req' = r
        /\ oracle' = IF run.oracleInvoked THEN o ELSE NotInvoked
        /\ sent' = run.sent
        /\ escaped' = run.escaped
        /\ verified' = IF succeeded THEN verified \cup {c} ELSE verified
        /\ UNCHANGED <<envVars, gateVars, normVars, uiVars, csvVars>>

\* The oracle acts only in a run that calls it.
Request ==
    \E c \in Callers, r \in Requests :
        IF handler(r, NotInvoked).oracleInvoked
        THEN \E o \in OracleOutcomes : Serve(c, r, o)
        ELSE Serve(c, r, NotInvoked)

Init == EnvInit /\ HandlerInit /\ GateInit /\ NormIdle /\ UIInit /\ CsvIdle

Next == Request

Spec == Init /\ [][Next]_vars

(***************************************************************************)
(* Properties of the transport boundary (specification Spec).              *)
(***************************************************************************)
Served == req # NoRequest

HasBody == ~IsNullish(req.body)

ReqOperation == Get(req.body, "operation")

ReqParams == Get(req.body, "params")

RecognizedOperations == GenerationOperations \cup {"verifyPassword"}

IsGenerationRequest ==
    HasBody /\ ReqOperation.t = "str" /\ ReqOperation.s \in GenerationOperations

IsUnknownOperationRequest ==
    HasBody /\ ~(ReqOperation.t = "str" /\ ReqOperation.s \in RecognizedOperations)

IsVerifyRequest == HasBody /\ ReqOperation = Str("verifyPassword")

SentOne(status) == Len(sent) = 1 /\ sent[1].status = status

SentError(status) ==
    SentOne(status) /\ sent[1].error # "" /\ sent[1].data = Undefined

SentSuccess(b) == sent = <<DataResponse(Obj([success |-> Bool(b)]))>>

\* C1 (as claimed): no operation other than verifyPassword is carried out
\* for a caller that has not passed the shared-secret check: whenever the
\* handler has called the oracle or answered 200 for a generation
\* operation, the caller is one verifyPassword has answered success=true.
C1_GateGatesEveryOperation ==
    (Served /\ IsGenerationRequest /\ (oracle.invoked \/ SentOne(200)))
        => caller \in verified

\* C2: with no secret configured (APP_PASSWORD unset or empty), a
\* verifyPassword request is answered 200 with success=false whatever
\* password is supplied, the empty string and a missing password included.
C2_NoSecretFailsClosed ==
    (req.method = "POST" /\ IsVerifyRequest /\ ~Truthy(appPassword))
        => (SentSuccess(FALSE) /\ ~escaped /\ verified = {})

\* C2's case: the empty password is supplied while the secret is the empty
\* string, and the answer is success=false.
C2_Witness ==
    /\ req.method = "POST" /\ IsVerifyRequest
    /\ appPassword = Str("")
    /\ Get(ReqParams, "password") = Str("")
    /\ SentSuccess(FALSE)

\* C5 (as claimed): a request whose operation is not one of the eight
\* recognized names is answered 400 with an error body, whatever the
\* server configuration.
C5_UnknownOperationAlways400 ==
    (Served /\ IsUnknownOperationRequest) => SentError(400)

\* C5 (amended): a POST request whose operation is not one of the eight
\* recognized names is answered 400 with an error body when API_KEY is set,
\* and 500 with an error body when API_KEY is unset or empty; the oracle is
\* not called either way.
C5_UnknownOperation400WhenCredentialSet ==
    (req.method = "POST" /\ IsUnknownOperationRequest)
        => /\ IF Truthy(apiKey) THEN SentError(400) ELSE SentError(500)
           /\ ~oracle.invoked
           /\ ~escaped

\* C5's case: an unknown operation name, with the credential set, answered 400.
C5_Witness ==
    /\ req.method = "POST"
    /\ ReqOperation = Str("bogus")
    /\ Truthy(apiKey)
    /\ SentError(400)

\* The answer the access gate gives to a verifyPassword request, stated
\* without reference to API_KEY.
VerifyAnsweredNormally ==
    IF ~Truthy(appPassword)
    THEN SentSuccess(FALSE)
    ELSE IF IsNullish(ReqParams)
    THEN SentError(500)
    ELSE SentSuccess(Get(ReqParams, "password") = appPassword)

\* C6: with API_KEY unset (or empty), each of the seven generation
\* operations is answered 500 with an error body and the oracle is not
\* called, while verifyPassword is answered as it is with the credential set.
C6_NoCredentialDisablesGeneration ==
    (req.method = "POST" /\ HasBody /\ ~Truthy(apiKey))
        => /\ IsGenerationRequest => (SentError(500) /\ ~oracle.invoked /\ ~escaped)
           /\ IsVerifyRequest => VerifyAnsweredNormally

\* C6's case: a well-formed generation request answered 500 without the
\* oracle, API_KEY being unset.
C6_Witness ==
    /\ req.method = "POST"
    /\ ReqOperation = Str("generateFullArticle")
    /\ ReqParams = Obj([draft |-> JsonDocs["DraftFull"]])
    /\ apiKey = Undefined
    /\ SentError(500)
    /\ ~oracle.invoked

\* C7: a request whose method is not POST is answered 405 with an error
\* body whatever its body, operation and the configuration are; no
\* exception leaves the handler, no operation is dispatched and the oracle
\* is not called.
C7_NonPostIs405 ==
    (Served /\ req.method # "POST")
        => /\ sent = <<ErrorResponse(405, "Method Not Allowed")>>
           /\ ~escaped
           /\ ~oracle.invoked

\* C7's case: a GET request without any body is answered 405.
C7_Witness ==
    /\ req.method = "GET"
    /\ req.body = Undefined
    /\ SentError(405)

\* C8 (as claimed): every failure while a POST request is processed is
\* caught and answered 500: no exception leaves the handler and exactly one
\* response is sent per request.
C8_NoExceptionEscapes ==
    (Served /\ req.method = "POST") => (~escaped /\ Len(sent) = 1)

(***************************************************************************)
(* Client call wrapper and access gate of the UI.                          *)
(***************************************************************************)
MaxMounts == 3
MaxSessions == 2

\* What the user may type into the password field.
TypedPasswords == {"", "s1", "s2"}

IncorrectPassword == "incorrect password"

AUTH_TRUE == Str("true")

\* callApi: a rejected fetch, a response that is not ok (status outside
\* 200..299) and a body that is no JSON all give null; otherwise result.data.
callApi(reply) ==
    IF reply.kind = "rejected" THEN Null
    ELSE IF ~(reply.status \in 200..299) THEN Null
    ELSE IF ~reply.json THEN Null
    ELSE reply.data

\* The request callApi('verifyPassword', { password }) posts.
VerifyRequest(p) ==
    [method |-> "POST",
     body |-> Obj([operation |-> Str("verifyPassword"), params |-> Obj([password |-> Str(p)])])]

\* What fetch may get back for request r: the handler's response, the
\* platform's 500 when an exception left the handler, a response that is
\* no JSON (a proxy's error page), or no response at all.
Replies(r) ==
    LET run == handler(r, NotInvoked)
    IN  {Reply("rejected", 0, FALSE, Undefined),
         Reply("garbled", 200, FALSE, Undefined),
         Reply("garbled", 502, FALSE, Undefined),
         IF run.escaped
         THEN Reply("answered", 500, FALSE, Undefined)
         ELSE Reply("answered", run.sent[1].status, TRUE, run.sent[1].data)}

\* if (result?.success) with "if (result)" in its place.
LoginSucceededAnyResult(result) == Truthy(result)

\* if (result?.success)
LoginSucceeded(result) == Truthy(Get(result, "success"))

\* The mount effect of App left out: the flag is never read.
MountAuthenticatedNever == FALSE

\* App's mount effect: sessionStorage.getItem(AUTH_KEY) === 'true'
MountAuthenticated == sessionFlag = AUTH_TRUE

\* The password input's onChange; the input is disabled while loading and
\* the modal is rendered only while the app is not authenticated.
TypePassword(p) ==
    /\ ~isAuthenticated
    /\ ~isLoading
    /\ password' = p
    /\ UNCHANGED <<session, mounts, sessionFlag, isAuthenticated, error, isLoading, call>>
    /\ UNCHANGED <<envVars, handlerVars, normVars, uiVars, csvVars>>

\* handleSubmit up to its await.
handleSubmit ==
    /\ ~isAuthenticated
    /\ ~isLoading
    /\ isLoading' = TRUE
    /\ error' = ""
    /\ call' = [stage |-> "sent", password |-> password, reply |-> NoReply]
    /\ UNCHANGED <<session, mounts, sessionFlag, isAuthenticated, password>>
    /\ UNCHANGED <<envVars, handlerVars, normVars, uiVars, csvVars>>

\* The request crosses the network and the handler answers it (or not).
Transport ==
    /\ call.stage = "sent"
    /\ \E reply \in Replies(VerifyRequest(call.password)) :
          call' = [call EXCEPT !.stage = "replied", !.reply = reply]
    /\ UNCHANGED <<session, mounts, sessionFlag, isAuthenticated, password, error, isLoading>>
    /\ UNCHANGED <<envVars, handlerVars, normVars, uiVars, csvVars>>

\* handleSubmit from its await on: onSuccess is App's handleLoginSuccess.
handleSubmitResume ==
    /\ call.stage = "replied"
    /\ LET result == callApi(call.reply)
       IN  IF LoginSucceeded(result)
           THEN /\ sessionFlag' = AUTH_TRUE
                /\ isAuthenticated' = TRUE
                /\ error' = error
           ELSE /\ error' = IncorrectPassword
                /\ UNCHANGED <<sessionFlag, isAuthenticated>>
    /\ isLoading' = FALSE
    /\ call' = NoCall
    /\ UNCHANGED <<session, mounts, password>>
    /\ UNCHANGED <<envVars, handlerVars, normVars, uiVars, csvVars>>

\* The page is loaded again in the same browser session: App and the modal
\* start from their initial state, the pending call is gone with the old
\* page, and the mount effect reads the session flag.
Mount ==
    /\ mounts < MaxMounts
    /\ mounts' = mounts + 1
    /\ isAuthenticated' = MountAuthenticated
    /\ password' = ""
    /\ error' = ""
    /\ isLoading' = FALSE
    /\ call' = NoCall
    /\ UNCHANGED <<session, sessionFlag>>
    /\ UNCHANGED <<envVars, handlerVars, normVars, uiVars, csvVars>>

\* The browser session ends and a new one loads the page: sessionStorage
\* starts empty.
NewSession ==
    /\ session < MaxSessions
    /\ session' = session + 1
    /\ mounts' = 1
    /\ sessionFlag' = Null
    /\ isAuthenticated' = FALSE
    /\ password' = ""
    /\ error' = ""
    /\ isLoading' = FALSE
    /\ call' = NoCall
    /\ UNCHANGED <<envVars, handlerVars, normVars, uiVars, csvVars>>

NextGate ==
    \/ \E p \in TypedPasswords : TypePassword(p)
    \/ handleSubmit
    \/ Transport
    \/ handleSubmitResume
    \/ Mount
    \/ NewSession

SpecGate == Init /\ [][NextGate]_vars

(***************************************************************************)
(* Properties of the access gate (specification SpecGate).                 *)
(***************************************************************************)
AnsweredSuccess(reply) ==
    /\ reply.kind = "answered"
    /\ reply.status = 200
    /\ reply.data = Obj([success |-> Bool(TRUE)])

SamePage == session' = session /\ mounts' = mounts

\* C3: with a secret configured, the handler's answer to verifyPassword is
\* success=true exactly when the supplied password equals the secret, and
\* otherwise it is success=false; and the UI sets the session flag and
\* isAuthenticated only in the step that receives a success=true answer (a
\* rejected or garbled reply, an error status and success=false never do).
C3_OnlyExactSecretAuthenticates ==
    /\ [](  (call.stage = "replied" /\ call.reply.kind = "answered" /\ Truthy(appPassword))
            => /\ AnsweredSuccess(call.reply) <=> (Str(call.password) = appPassword)
               /\ ~AnsweredSuccess(call.reply)
                     => (call.reply.status = 200
                         /\ call.reply.data = Obj([success |-> Bool(FALSE)])) )
    /\ [][ ((isAuthenticated' /\ ~isAuthenticated /\ SamePage)
             \/ (sessionFlag' = AUTH_TRUE /\ sessionFlag # AUTH_TRUE))
           => (call.stage = "replied" /\ AnsweredSuccess(call.reply)) ]_vars
    /\ [][ (call.stage = "replied" /\ call' = NoCall /\ SamePage
            /\ ~AnsweredSuccess(call.reply))
           => (isAuthenticated' = isAuthenticated /\ sessionFlag' = sessionFlag
               /\ error' = IncorrectPassword) ]_vars

\* C3's case: the secret was typed and submitted, the answer came back and
\* the session is authenticated on the page that asked.
C3_Witness ==
    /\ isAuthenticated
    /\ password = "s1"
    /\ appPassword = Secret
    /\ call = NoCall

\* C4: the session flag and isAuthenticated agree in every state; within
\* one browser session a set flag stays set and the app stays or, after a
\* new mount, starts authenticated, with no verifyPassword call pending;
\* a new session starts with no flag and unauthenticated.
C4_RememberedForTheSession ==
    /\ [](isAuthenticated <=> (sessionFlag = AUTH_TRUE))
    /\ [][ (session' = session /\ sessionFlag = AUTH_TRUE)
           => (sessionFlag' = AUTH_TRUE /\ isAuthenticated') ]_vars
    /\ [][ (session' = session /\ mounts' # mounts)
           => /\ isAuthenticated' <=> (sessionFlag = AUTH_TRUE)
              /\ call' = NoCall ]_vars
    /\ [][ session' # session => (sessionFlag' = Null /\ ~isAuthenticated') ]_vars

\* C4's case: the app was mounted again after a login of an earlier mount
\* (the password field is fresh) and is authenticated.
C4_Witness ==
    /\ mounts > 1
    /\ isAuthenticated
    /\ password = ""
    /\ call = NoCall

(***************************************************************************)
(* The response normalizer on its own (specification SpecNorm): the        *)
(* initial states draw a stage and a text, the one action runs the stage's *)
(* normalization on it.                                                    *)
(***************************************************************************)
MaxTagWhitespace == 2

RECURSIVE WhitespaceRuns(_)
WhitespaceRuns(n) ==
    IF n = 0 THEN {<<>>}
    ELSE LET shorter == WhitespaceRuns(n - 1)
         IN  shorter \cup {<<w>> \o r : w \in Whitespace, r \in shorter}

\* What may stand before the content: nothing, an opening fence with the
\* json tag and some whitespace, or an opening fence without a tag.
NormLeads ==
    {<<>>, Fence, Fence \o <<Newline>>}
    \cup {Fence \o JsonTag \o ws : ws \in WhitespaceRuns(MaxTagWhitespace)}

\* What may stand after it: nothing, or a closing fence, on a line of its
\* own or not, with or without a newline after it.
NormTrails ==
    {<<>>, Fence, <<Newline>> \o Fence, Fence \o <<Newline>>,
     <<Newline>> \o Fence \o <<Newline>>}

\* The content: a JSON document, nothing, or text that is no JSON.
NormBodies ==
    {<<>>, <<Garbage>>} \cup {<<d>> : d \in JsonDocNames}
    \cup {<<d, Garbage>> : d \in {"DraftFull"}}

NormText == normLead \o normBody \o normTrail

NormInit ==
    /\ normStage \in GenerationOperations
    /\ normLead \in NormLeads
    /\ normBody \in NormBodies
    /\ normTrail \in NormTrails
    /\ normResult = NotRun

\* The stage receives the oracle's response and returns.
Normalize ==
    /\ normResult = NotRun
    /\ normResult' = StageReturn(normStage, NormText)
    /\ UNCHANGED <<normStage, normLead, normBody, normTrail>>
    /\ UNCHANGED <<envVars, handlerVars, gateVars, uiVars, csvVars>>

InitNorm ==
    /\ appPassword = Undefined
    /\ apiKey = Str("key")
    /\ HandlerInit
    /\ GateInit
    /\ NormInit
    /\ UIInit
    /\ CsvIdle

NextNorm == Normalize

SpecNorm == InitNorm /\ [][NextNorm]_vars

(***************************************************************************)
(* Properties of the normalizer (specification SpecNorm).                  *)
(***************************************************************************)
NormDone == normResult # NotRun

\* The value v is an object that lacks a field the stage's schema declares
\* as required at its top level.
MissingRequiredField(operation, v) ==
    v.t = "obj" /\ \E f \in RequiredFields(operation) : f \notin DOMAIN v.o

\* C9 (as claimed): for every structured stage, when the text parses to an
\* object that lacks a field the stage's schema declares as required, the
\* stage returns null, never the partially filled record.
C9_MissingRequiredFieldGivesNull ==
    (NormDone /\ normStage \in StructuredStages
       /\ MissingRequiredField(normStage, safeJsonParse(NormText)))
        => normResult = Null

\* A leading and a trailing code-fence marker: with or without the
\* language tag, with or without a newline after the closing fence.
IsFenceWrap(lead, trail) ==
    /\ lead \in {Fence \o JsonTag \o <<Newline>>, Fence \o <<Newline>>}
    /\ trail \in {<<Newline>> \o Fence, <<Newline>> \o Fence \o <<Newline>>}

IsJsonDocument(body) == Len(body) = 1 /\ body[1] \in JsonDocNames

\* C10 (as claimed): for every valid JSON text J, the normalizer's result
\* on J wrapped in a leading and a trailing code-fence marker equals its
\* result on J unwrapped.
C10_FenceWrappedParsesAsUnwrapped ==
    (NormDone /\ normStage \in StructuredStages
       /\ IsJsonDocument(normBody) /\ IsFenceWrap(normLead, normTrail))
        => normResult = StageReturn(normStage, normBody)

(***************************************************************************)
(* The three phases of the UI: App (phase navigation, draft hand-over),    *)
(* PreparationStep, CreationStep and AnalysisStep, and the stage calls     *)
(* they await.                                                             *)
(***************************************************************************)
MaxPending == 2

\* String.prototype.trim on a typed text.
Trim(s) == SkipWhitespaceEnd(SkipWhitespace(s))

Http == <<"h", "t", "t", "p">>

\* What the user may type into the inputs.
UserUrls == {<<>>, <<"u">>}
Topics == {<<>>, <<Space>>, <<"k">>}
RevisionPrompts == {<<>>, <<Space>>, <<"r">>}
ArticleUrls == {<<>>, <<"u">>, Http}
SocialUrls == {<<>>, <<"s">>}

\* The messages the handlers pass to setError (in English): for an empty
\* input, for a null result ("error during") and for an exception ("failed").
UrlRequired == Str("enter a url")
TopicRequired == Str("enter a topic")
KeywordsFailed == Str("error during keyword analysis")
KeywordsThrown == Str("keyword analysis failed")
ArticlesFailed == Str("error during competitor analysis")
ArticlesThrown == Str("competitor analysis failed")
DraftFailed == Str("error during draft creation")
DraftThrown == Str("draft creation failed")
GenerateFailed == Str("error during article generation")
GenerateThrown == Str("article generation failed")
ReviseFailed == Str("error during article revision")
ReviseThrown == Str("article revision failed")
ArticleUrlRequired == Str("enter a valid article url")
ReportFailed == Str("error during report generation")
ReportThrown == Str("report generation failed")

\* The oracle texts the stage functions of the handler are taken to receive
\* for a stage call of the UI.
StageTexts(operation) ==
    CASE operation = "analyzeKeywords" -> {<<"KeywordsFull">>, <<"KeywordsNoAnalysis">>}
      [] operation = "findTopCompetitorArticles" -> {<<"ArticlesFull">>}
      [] operation = "createCompositeArticle" -> {<<"DraftFull">>, <<"DraftEmptySections">>}
      [] operation = "generateFullArticle" -> {<<Garbage>>, <<>>}
      [] operation = "generateSocialMediaPosts" -> {<<"PostsFull">>}
      [] operation = "reviseFullArticle" -> {<<Garbage, Garbage>>}
      [] operation = "analyzePerformanceData" -> {<<"ReportFull">>}

\* What fetch may get back for a stage call: no response at all, a response
\* whose body is no JSON, the handler's 500, or its 200 with what the stage
\* function returned.
StageReplies(operation) ==
    {Reply("rejected", 0, FALSE, Undefined),
     Reply("garbled", 200, FALSE, Undefined),
     Reply("answered", 500, TRUE, Undefined)}
    \cup {Reply("answered", 200, TRUE, StageReturn(operation, text)) :
            text \in StageTexts(operation)}

\* An await of a stage function whose promise is rejected when fetch is.
AwaitedRejects(reply) == [threw |-> reply.kind = "rejected", value |-> callApi(reply)]

\* What an await of a stage function gives: callApi catches every
\* exception, so the promise is always fulfilled.
Awaited(reply) == [threw |-> FALSE, value |-> callApi(reply)]

\* The pending calls but for one copy of c.
Remove(calls, c) == calls (-) SetToBag({c})

\* The mounted component is unmounted: the state setters its pending calls
\* will run have no effect any more, and the results it held are gone.
DisownOne(c) == [c EXCEPT !.owner = "unmounted", !.held = Undefined]

Disown(calls) == BagOfAll(DisownOne, calls)

\* CreationStep's effect on [initialDraft] ran while its calls were pending.
EffectResetOne(c) == IF c.owner = "mounted" THEN [c EXCEPT !.owner = "reset"] ELSE c

EffectReset(calls) == BagOfAll(EffectResetOne, calls)

\* ------------------------------------------------------------------ App
\* App's handleDraftCreated, without its setCurrentStep.
handleDraftCreatedNoStep(draft) == [creationDraft |-> draft, currentStep |-> currentStep]

\* App's handleDraftCreated: setCreationDraft(draft); setCurrentStep(Creation).
handleDraftCreated(draft) == [creationDraft |-> draft, currentStep |-> AppStep.Creation]

\* A renderCurrentStep that keeps the three components mounted, each with
\* its state, whichever phase is shown.
RenderKeepsPhases(app, arrived, calls) ==
    /\ currentStep' = app.currentStep
    /\ creationDraft' = app.creationDraft
    /\ preparation' = preparation
    /\ analysis' = analysis
    /\ creation' = IF ~arrived THEN creation ELSE CreationInit(app.creationDraft)
    /\ pending' = IF arrived THEN EffectReset(calls) ELSE calls
    /\ revised' = IF ~arrived THEN revised ELSE FALSE

\* renderCurrentStep after App's state became app: the component of another
\* phase is mounted afresh; a CreationStep that stays mounted runs its
\* effect when initialDraft changed.  Every draft that arrives is a new
\* object (arrived), so it changes initialDraft even when it equals the
\* draft held.
Render(app, arrived, calls) ==
    LET stays == app.currentStep = currentStep
    IN  /\ currentStep' = app.currentStep
        /\ creationDraft' = app.creationDraft
        /\ preparation' = IF stays THEN preparation ELSE PreparationInit
        /\ analysis' = IF stays THEN analysis ELSE AnalysisInit
        /\ creation' = IF stays /\ ~arrived THEN creation
                       ELSE CreationInit(app.creationDraft)
        /\ pending' = IF ~stays THEN Disown(calls)
                      ELSE IF arrived THEN EffectReset(calls)
                      ELSE calls
        /\ revised' = IF stays /\ ~arrived THEN revised ELSE FALSE

\* Header: onClick={() => setCurrentStep(item.step)}.  A click on the item
\* of the active phase changes nothing.
setCurrentStep(step) ==
    /\ step # currentStep
    /\ Render([creationDraft |-> creationDraft, currentStep |-> step], FALSE, pending)
    /\ lastEvent' = Handled("navigate", NoStageCall)
    /\ UNCHANGED <<envVars, handlerVars, gateVars, normVars, csvVars>>

\* ------------------------------------------------------ PreparationStep
\* const isLoading = stage !== 'idle'
PreparationLoading == preparation.stage # "idle"

Mounted(step) == isAuthenticated /\ currentStep = step

\* A handler or an input of the mounted PreparationStep ran: p is the
\* component's next state, issued the call it issued, if any.
PreparationEvent(name, p, issued) ==
    /\ preparation' = p
    /\ pending' = IF issued = NoStageCall THEN pending ELSE pending (+) SetToBag({issued})
    /\ lastEvent' = Handled(name, issued)
    /\ UNCHANGED <<currentStep, creationDraft, creation, analysis, revised>>
    /\ UNCHANGED <<envVars, handlerVars, gateVars, normVars, csvVars>>

\* onChange of the user-url input.
setUserUrl(u) ==
    /\ Mounted(AppStep.Preparation)
    /\ u # preparation.userUrl
    /\ PreparationEvent("input", [preparation EXCEPT !.userUrl = u], NoStageCall)

\* {keywordAnalysis && (...)}: the table of keywords, the topic input and
\* the button of the competitor search are rendered with a keyword analysis.
SelectTopicRendered(p) == Truthy(p.keywordAnalysis)

\* {competitorArticles && (...)}: the button of the draft creation is
\* rendered with the competitor articles.
CreateDraftRendered(p) == Truthy(p.competitorArticles)

\* onChange of the topic input.
setTopic(t) ==
    /\ Mounted(AppStep.Preparation)
    /\ SelectTopicRendered(preparation)
    /\ t # preparation.topic
    /\ PreparationEvent("input", [preparation EXCEPT !.topic = t], NoStageCall)

\* The keywords of the rows of the analysis table.
Keywords(result) ==
    LET rows == Get(result, "keywordAnalysis")
    IN  {Get(rows.a[i], "keyword") : i \in DOMAIN rows.a}

\* handleSelectKeyword, the onClick of a row's button.
handleSelectKeyword ==
    /\ Mounted(AppStep.Preparation)
    /\ SelectTopicRendered(preparation)
    /\ \E kw \in Keywords(preparation.keywordAnalysis) :
          /\ <<kw.s>> # preparation.topic
          /\ PreparationEvent("handleSelectKeyword",
                              [preparation EXCEPT !.topic = <<kw.s>>], NoStageCall)

\* handleAnalyzeKeywords up to its await; the button is disabled while
\* loading and while the url is empty.  The two optional competitor urls
\* are left empty.
handleAnalyzeKeywords ==
    /\ Mounted(AppStep.Preparation)
    /\ ~PreparationLoading
    /\ preparation.userUrl # <<>>
    /\ IF Trim(preparation.userUrl) = <<>>
       THEN PreparationEvent("handleAnalyzeKeywords",
                             [preparation EXCEPT !.error = UrlRequired], NoStageCall)
       ELSE /\ BagCardinality(pending) < MaxPending
            /\ PreparationEvent("handleAnalyzeKeywords",
                    [preparation EXCEPT !.error = Null,
                                        !.stage = "analyzingKeywords",
                                        !.keywordAnalysis = Null],
                    StageCall("analyzeKeywords",
                              Obj([userUrl |-> Text(preparation.userUrl),
                                   competitorUrls |-> Arr(<<>>)]),
                              "mounted", Held))

\* handleAnalyzeKeywords from its await on.
handleAnalyzeKeywordsResume(p, outcome) ==
    LET result == outcome.value
    IN  IF outcome.threw
        THEN [p EXCEPT !.error = KeywordsThrown, !.stage = "idle"]
        ELSE IF Truthy(result) /\ Truthy(Get(result, "keywordAnalysis"))
        THEN [p EXCEPT !.keywordAnalysis = result, !.stage = "idle"]
        ELSE [p EXCEPT !.error = KeywordsFailed, !.stage = "idle"]

\* handleFindArticles up to its await; the button is disabled while
\* loading and while the topic is empty.
handleFindArticles ==
    /\ Mounted(AppStep.Preparation)
    /\ SelectTopicRendered(preparation)
    /\ ~PreparationLoading
    /\ preparation.topic # <<>>
    /\ IF Trim(preparation.topic) = <<>>
       THEN PreparationEvent("handleFindArticles",
                             [preparation EXCEPT !.error = TopicRequired], NoStageCall)
       ELSE /\ BagCardinality(pending) < MaxPending
            /\ PreparationEvent("handleFindArticles",
                    [preparation EXCEPT !.error = Null,
                                        !.stage = "findingArticles",
                                        !.competitorArticles = Null],
                    StageCall("findTopCompetitorArticles",
                              Obj([topic |-> Text(preparation.topic)]),
                              "mounted", Held))

\* handleFindArticles from its await on.
handleFindArticlesResume(p, outcome) ==
    IF outcome.threw
    THEN [p EXCEPT !.error = ArticlesThrown, !.stage = "idle"]
    ELSE IF Truthy(outcome.value)
    THEN [p EXCEPT !.competitorArticles = outcome.value, !.stage = "idle"]
    ELSE [p EXCEPT !.error = ArticlesFailed, !.stage = "idle"]

\* handleCreateCompositeArticle up to its await; the button is disabled
\* while loading.
handleCreateCompositeArticle ==
    /\ Mounted(AppStep.Preparation)
    /\ CreateDraftRendered(preparation)
    /\ ~PreparationLoading
    /\ IF ~Truthy(preparation.competitorArticles) \/ preparation.topic = <<>>
       THEN PreparationEvent("handleCreateCompositeArticle", preparation, NoStageCall)
       ELSE /\ BagCardinality(pending) < MaxPending
            /\ PreparationEvent("handleCreateCompositeArticle",
                    [preparation EXCEPT !.error = Null, !.stage = "creatingDraft"],
                    StageCall("createCompositeArticle",
                              Obj([topic |-> Text(preparation.topic),
                                   articles |-> preparation.competitorArticles]),
                              "mounted", Held))

\* handleCreateCompositeArticle from its await on, but for onDraftCreated.
handleCreateCompositeArticleResume(p, outcome) ==
    IF outcome.threw
    THEN [p EXCEPT !.error = DraftThrown, !.stage = "idle"]
    ELSE IF Truthy(outcome.value)
    THEN [p EXCEPT !.stage = "idle"]
    ELSE [p EXCEPT !.error = DraftFailed, !.stage = "idle"]

\* Whether the continuation of handleCreateCompositeArticle calls
\* onDraftCreated(result).
DraftCreated(outcome) == ~outcome.threw /\ Truthy(outcome.value)

\* The state setters of a component that is no longer mounted do nothing.
Settle(c, before, after) == IF c.owner = "unmounted" THEN before ELSE after

\* The response to the pending call c of PreparationStep arrives and the
\* handler that awaits it runs to its end.
ResumePreparation(c) ==
    /\ isAuthenticated
    /\ c.operation \in {"analyzeKeywords", "findTopCompetitorArticles",
                        "createCompositeArticle"}
    /\ \E reply \in StageReplies(c.operation) :
          LET outcome == Awaited(reply)
              p == CASE c.operation = "analyzeKeywords" ->
                            handleAnalyzeKeywordsResume(preparation, outcome)
                     [] c.operation = "findTopCompetitorArticles" ->
                            handleFindArticlesResume(preparation, outcome)
                     [] c.operation = "createCompositeArticle" ->
                            handleCreateCompositeArticleResume(preparation, outcome)
          IN  /\ lastEvent' = Resumed(c, outcome.value)
              /\ IF c.operation = "createCompositeArticle" /\ DraftCreated(outcome)
                 THEN Render(handleDraftCreated(outcome.value), TRUE, Remove(pending, c))
                 ELSE /\ preparation' = Settle(c, preparation, p)
                      /\ pending' = Remove(pending, c)
                      /\ UNCHANGED <<currentStep, creationDraft, creation, analysis, revised>>
    /\ UNCHANGED <<envVars, handlerVars, gateVars, normVars, csvVars>>

\* --------------------------------------------------------- CreationStep
\* A handler or an input of the mounted CreationStep ran.
CreationEvent(name, c, issued) ==
    /\ creation' = c
    /\ pending' = IF issued = NoStageCall THEN pending ELSE pending (+) SetToBag({issued})
    /\ lastEvent' = Handled(name, issued)
    /\ revised' = IF issued = NoStageCall THEN revised
                  ELSE issued.operation = "reviseFullArticle"
    /\ UNCHANGED <<currentStep, creationDraft, preparation, analysis>>
    /\ UNCHANGED <<envVars, handlerVars, gateVars, normVars, csvVars>>

\* The generate button: rendered with a draft and without a full article,
\* disabled={isGenerating}.
GenerateEnabled(c) ==
    /\ Truthy(c.draft)
    /\ ~Truthy(c.fullArticle)
    /\ ~c.isGenerating

\* handleGenerateArticle up to its first await.
handleGenerateArticle ==
    /\ Mounted(AppStep.Creation)
    /\ GenerateEnabled(creation)
    /\ IF ~Truthy(creation.draft)
       THEN CreationEvent("handleGenerateArticle", creation, NoStageCall)
       ELSE /\ BagCardinality(pending) < MaxPending
            /\ CreationEvent("handleGenerateArticle",
                    [creation EXCEPT !.isGenerating = TRUE,
                                     !.error = Null,
                                     !.fullArticle = Null,
                                     !.socialPosts = Null,
                                     !.revisionPrompt = <<>>],
                    StageCall("generateFullArticle",
                              Obj([draft |-> creation.draft]),
                              "mounted", Held))

\* if (articleResult): the chain goes on to generateSocialMediaPosts.
ChainsSocialPosts(outcome) == ~outcome.threw /\ Truthy(outcome.value)

\* handleGenerateArticle from its first await to its second await or its
\* end.
handleGenerateArticleResume(c, outcome) ==
    IF outcome.threw
    THEN [c EXCEPT !.error = GenerateThrown, !.isGenerating = FALSE]
    ELSE IF Truthy(outcome.value)
    THEN [c EXCEPT !.fullArticle = outcome.value]
    ELSE [c EXCEPT !.error = GenerateFailed, !.isGenerating = FALSE]

\* handleGenerateArticle from its second await on: a null result is only
\* logged to the console.
handleGenerateArticleResumeSocial(c, outcome) ==
    IF outcome.threw
    THEN [c EXCEPT !.error = GenerateThrown, !.isGenerating = FALSE]
    ELSE IF Truthy(outcome.value)
    THEN [c EXCEPT !.socialPosts = outcome.value, !.isGenerating = FALSE]
    ELSE [c EXCEPT !.isGenerating = FALSE]

\* The revision textarea: rendered with a draft and a full article,
\* disabled={isRevising || isGenerating}.
setRevisionPrompt(r) ==
    /\ Mounted(AppStep.Creation)
    /\ Truthy(creation.draft)
    /\ Truthy(creation.fullArticle)
    /\ ~creation.isRevising
    /\ ~creation.isGenerating
    /\ r # creation.revisionPrompt
    /\ CreationEvent("input", [creation EXCEPT !.revisionPrompt = r], NoStageCall)

\* The revise button: rendered with a draft and a full article,
\* disabled={isRevising || isGenerating || !revisionPrompt.trim()}.
ReviseEnabled(c) ==
    /\ Truthy(c.draft)
    /\ Truthy(c.fullArticle)
    /\ ~c.isRevising
    /\ ~c.isGenerating
    /\ Trim(c.revisionPrompt) # <<>>

\* The guard of handleReviseArticle without its test of the instruction.
ReviseProceedsAnyPrompt(c) == Truthy(c.fullArticle)

\* if (!fullArticle || !revisionPrompt.trim()) return;
ReviseProceeds(c) == Truthy(c.fullArticle) /\ Trim(c.revisionPrompt) # <<>>

\* handleReviseArticle up to its await or its early return.  It runs on a
\* click on the enabled button; it is also run with a blank instruction
\* and with no full article held, which the button does not admit, to show
\* what the handler itself makes of such a request.
handleReviseArticle ==
    /\ Mounted(AppStep.Creation)
    /\ \/ ReviseEnabled(creation)
       \/ Trim(creation.revisionPrompt) = <<>>
       \/ ~Truthy(creation.fullArticle)
    /\ IF ~ReviseProceeds(creation)
       THEN CreationEvent("handleReviseArticle", creation, NoStageCall)
       ELSE /\ BagCardinality(pending) < MaxPending
            /\ CreationEvent("handleReviseArticle",
                    [creation EXCEPT !.isRevising = TRUE,
                                     !.error = Null,
                                     !.socialPosts = Null],
                    StageCall("reviseFullArticle",
                              Obj([currentArticle |-> creation.fullArticle,
                                   revisionPrompt |-> Text(creation.revisionPrompt)]),
                              "mounted", Held))

\* handleReviseArticle from its await on.
handleReviseArticleResume(c, outcome) ==
    IF outcome.threw
    THEN [c EXCEPT !.error = ReviseThrown, !.isRevising = FALSE]
    ELSE IF Truthy(outcome.value)
    THEN [c EXCEPT !.fullArticle = outcome.value,
                   !.revisionPrompt = <<>>,
                   !.isRevising = FALSE]
    ELSE [c EXCEPT !.error = ReviseFailed, !.isRevising = FALSE]

\* The response to the pending call c of CreationStep arrives and the
\* handler that awaits it runs to its next await or to its end.  The chain
\* of handleGenerateArticle goes on whether or not the component is still
\* mounted.
ResumeCreation(c) ==
    /\ isAuthenticated
    /\ c.operation \in {"generateFullArticle", "generateSocialMediaPosts",
                        "reviseFullArticle"}
    /\ \E reply \in StageReplies(c.operation) :
          LET outcome == Awaited(reply)
              after == CASE c.operation = "generateFullArticle" ->
                                handleGenerateArticleResume(creation, outcome)
                         [] c.operation = "generateSocialMediaPosts" ->
                                handleGenerateArticleResumeSocial(creation, outcome)
                         [] c.operation = "reviseFullArticle" ->
                                handleReviseArticleResume(creation, outcome)
              settled == Settle(c, creation, after)
              snapshot == IF c.owner = "unmounted" THEN Undefined
                          ELSE [Held EXCEPT !.fullArticle = settled.fullArticle]
          IN  /\ lastEvent' = Resumed(c, outcome.value)
              /\ creation' = settled
              /\ pending' =
                    IF c.operation = "generateFullArticle" /\ ChainsSocialPosts(outcome)
                    THEN Remove(pending, c)
                         (+) SetToBag({StageCall("generateSocialMediaPosts",
                                                 Obj([article |-> outcome.value]),
                                                 c.owner, snapshot)})
                    ELSE Remove(pending, c)
    /\ UNCHANGED <<currentStep, creationDraft, preparation, analysis, revised>>
    /\ UNCHANGED <<envVars, handlerVars, gateVars, normVars, csvVars>>

\* --------------------------------------------------------- AnalysisStep
\* A handler or an input of the mounted AnalysisStep ran.
AnalysisEvent(name, a, issued) ==
    /\ analysis' = a
    /\ pending' = IF issued = NoStageCall THEN pending ELSE pending (+) SetToBag({issued})
    /\ lastEvent' = Handled(name, issued)
    /\ UNCHANGED <<currentStep, creationDraft, preparation, creation, revised>>
    /\ UNCHANGED <<envVars, handlerVars, gateVars, normVars, csvVars>>

\* onChange of the social-url input.
setSocialUrl(u) ==
    /\ Mounted(AppStep.Analysis)
    /\ u # analysis.socialUrl
    /\ AnalysisEvent("input", [analysis EXCEPT !.socialUrl = u], NoStageCall)

\* The call of handleGenerateReport with the draft added to what it posts.
analyzePerformanceDataWithDraft(a) ==
    StageCall("analyzePerformanceData",
              Obj([articleUrl |-> Text(a.articleUrl), socialUrl |-> Text(a.socialUrl),
                   draft |-> creationDraft]),
              "mounted", Held)

\* analyzePerformanceData(articleUrl, socialUrl), as handleGenerateReport
\* calls it.
analyzePerformanceData(a) ==
    StageCall("analyzePerformanceData",
              Obj([articleUrl |-> Text(a.articleUrl), socialUrl |-> Text(a.socialUrl)]),
              "mounted", Held)

\* onChange of the article-url input.
setArticleUrl(u) ==
    /\ Mounted(AppStep.Analysis)
    /\ u # analysis.articleUrl
    /\ AnalysisEvent("input", [analysis EXCEPT !.articleUrl = u], NoStageCall)

\* handleGenerateReport up to its await; the button is
\* disabled={isLoading || !articleUrl}.
handleGenerateReport ==
    /\ Mounted(AppStep.Analysis)
    /\ ~analysis.isLoading
    /\ analysis.articleUrl # <<>>
    /\ IF Trim(analysis.articleUrl) = <<>> \/ ~StartsWith(analysis.articleUrl, Http)
       THEN AnalysisEvent("handleGenerateReport",
                          [analysis EXCEPT !.error = ArticleUrlRequired], NoStageCall)
       ELSE /\ BagCardinality(pending) < MaxPending
            /\ AnalysisEvent("handleGenerateReport",
                    [analysis EXCEPT !.error = Null,
                                     !.isLoading = TRUE,
                                     !.analysis = Null],
                    analyzePerformanceData(analysis))

\* handleGenerateReport from its await on.
handleGenerateReportResume(a, outcome) ==
    IF outcome.threw
    THEN [a EXCEPT !.error = ReportThrown, !.isLoading = FALSE]
    ELSE IF Truthy(outcome.value)
    THEN [a EXCEPT !.analysis = outcome.value, !.isLoading = FALSE]
    ELSE [a EXCEPT !.error = ReportFailed, !.isLoading = FALSE]

\* The response to the pending call c of AnalysisStep arrives.
ResumeAnalysis(c) ==
    /\ isAuthenticated
    /\ c.operation = "analyzePerformanceData"
    /\ \E reply \in StageReplies(c.operation) :
          LET outcome == Awaited(reply)
          IN  /\ lastEvent' = Resumed(c, outcome.value)
              /\ analysis' = Settle(c, analysis,
                                    handleGenerateReportResume(analysis, outcome))
              /\ pending' = Remove(pending, c)
    /\ UNCHANGED <<currentStep, creationDraft, preparation, creation, revised>>
    /\ UNCHANGED <<envVars, handlerVars, gateVars, normVars, csvVars>>

\* ------------------------------------------------------------ The UI
\* The app after a successful login in this browser session.
InitUI ==
    /\ appPassword = Secret
    /\ apiKey = Str("key")
    /\ HandlerInit
    /\ session = 1
    /\ mounts = 1
    /\ sessionFlag = AUTH_TRUE
    /\ isAuthenticated = TRUE
    /\ password = ""
    /\ error = ""
    /\ isLoading = FALSE
    /\ call = NoCall
    /\ NormIdle
    /\ UIInit
    /\ CsvIdle

NextUI ==
    \/ \E step \in AppSteps : setCurrentStep(step)
    \/ \E u \in UserUrls : setUserUrl(u)
    \/ \E t \in Topics : setTopic(t)
    \/ handleSelectKeyword
    \/ handleAnalyzeKeywords
    \/ handleFindArticles
    \/ handleCreateCompositeArticle
    \/ \E c \in BagToSet(pending) : ResumePreparation(c)
    \/ handleGenerateArticle
    \/ \E r \in RevisionPrompts : setRevisionPrompt(r)
    \/ handleReviseArticle
    \/ \E c \in BagToSet(pending) : ResumeCreation(c)
    \/ \E u \in ArticleUrls : setArticleUrl(u)
    \/ \E u \in SocialUrls : setSocialUrl(u)
    \/ handleGenerateReport
    \/ \E c \in BagToSet(pending) : ResumeAnalysis(c)

SpecUI == InitUI /\ [][NextUI]_vars

(***************************************************************************)
(* Claims about the stages of the UI.                                      *)
(***************************************************************************)
\* A stage call failed: callApi gave null, or gave a keyword analysis
\* without its keywordAnalysis member.
StageFailed(operation, result) ==
    \/ ~Truthy(result)
    \/ operation = "analyzeKeywords" /\ ~Truthy(Get(result, "keywordAnalysis"))

\* The step is the arrival of the response to a call of one of ops, awaited
\* by a component instance whose relation to the screen is one of owners.
Resumes(ops, owners) ==
    /\ lastEvent'.name = "resume"
    /\ lastEvent'.operation \in ops
    /\ lastEvent'.owner \in owners

ResumesFailed(ops, owners) ==
    /\ Resumes(ops, owners)
    /\ StageFailed(lastEvent'.operation, lastEvent'.result)

Owners == {"mounted", "reset", "unmounted"}

\* C11: once a revision of the full article was invoked, the social posts
\* held are absent, and they stay absent until a generation invoked after
\* it populates them.
C11_RevisionDiscardsSocialPosts ==
    (currentStep = AppStep.Creation /\ revised) => creation.socialPosts = Null

\* C12: when a stage request fails, the results held (keyword analysis,
\* competitor articles, draft, full article, social posts, performance
\* analysis) are what they were when the stage was invoked.
C12_FailureLeavesHeldResults ==
    [][ResumesFailed(GenerationOperations, {"mounted"}) => Held' = lastEvent'.held]_vars

\* Where the three components render their error message.
ErrorRendered ==
    CASE currentStep = AppStep.Preparation ->
            /\ Truthy(preparation.error)
            /\ \/ ~Truthy(preparation.keywordAnalysis)
               \/ SelectTopicRendered(preparation) /\ preparation.competitorArticles = Null
               \/ CreateDraftRendered(preparation)
      [] currentStep = AppStep.Creation ->
            /\ Truthy(creation.draft)
            /\ Truthy(creation.error)
            /\ ~Truthy(creation.fullArticle) \/ ~creation.isGenerating
      [] currentStep = AppStep.Analysis ->
            Truthy(analysis.error)

\* C13: every stage failure, that of the social-post request of the
\* generation chain included, leaves an error message that the current
\* screen renders.
C13_FailureShowsError ==
    [][ResumesFailed(GenerationOperations, {"mounted"}) => ErrorRendered']_vars

\* The busy flag of the stage that awaits a call of operation.
Busy(operation) ==
    CASE operation \in {"analyzeKeywords", "findTopCompetitorArticles",
                        "createCompositeArticle"} -> PreparationLoading
      [] operation \in {"generateFullArticle", "generateSocialMediaPosts"} ->
            creation.isGenerating
      [] operation = "reviseFullArticle" -> creation.isRevising
      [] operation = "analyzePerformanceData" -> analysis.isLoading

\* The control that invokes the stage of operation is on the screen and no
\* busy flag disables it.
Offered(operation) ==
    CASE operation = "analyzeKeywords" ->
            Mounted(AppStep.Preparation) /\ ~PreparationLoading
      [] operation = "findTopCompetitorArticles" ->
            /\ Mounted(AppStep.Preparation)
            /\ SelectTopicRendered(preparation)
            /\ ~PreparationLoading
      [] operation = "createCompositeArticle" ->
            /\ Mounted(AppStep.Preparation)
            /\ CreateDraftRendered(preparation)
            /\ ~PreparationLoading
      [] operation \in {"generateFullArticle", "generateSocialMediaPosts"} ->
            Mounted(AppStep.Creation) /\ GenerateEnabled(creation)
      [] operation = "reviseFullArticle" ->
            /\ Mounted(AppStep.Creation)
            /\ Truthy(creation.draft)
            /\ Truthy(creation.fullArticle)
            /\ ~creation.isRevising
            /\ ~creation.isGenerating
      [] operation = "analyzePerformanceData" ->
            Mounted(AppStep.Analysis) /\ ~analysis.isLoading

\* What the stages take as their inputs.
Inputs ==
    <<preparation.userUrl, preparation.topic, preparation.competitorArticles,
      creation.draft, creation.revisionPrompt, analysis.articleUrl, analysis.socialUrl>>

\* The chain of handleGenerateArticle goes on after this response.
ChainGoesOn ==
    /\ lastEvent'.operation = "generateFullArticle"
    /\ ~StageFailed(lastEvent'.operation, lastEvent'.result)

\* C14: when the response to a stage request arrives, the stage's busy flag
\* is cleared; after a failure the inputs are kept and the same stage can be
\* invoked again.
C14_CompletionClearsBusyAndAllowsRetry ==
    [][\A operation \in GenerationOperations :
          /\ (Resumes({operation}, {"mounted"}) /\ ~ChainGoesOn) => ~Busy(operation)'
          /\ ResumesFailed({operation}, {"mounted"})
                => (Inputs' = Inputs /\ Offered(operation)')]_vars

\* C15: a draft creation that succeeds makes Creation the active phase,
\* with exactly the draft returned as the draft that phase holds, whichever
\* phase was on the screen; one that fails changes neither the active phase
\* nor the draft held.
C15_DraftCreationHandsDraftToCreation ==
    [][Resumes({"createCompositeArticle"}, Owners) =>
          IF StageFailed(lastEvent'.operation, lastEvent'.result)
          THEN /\ currentStep' = currentStep
               /\ creationDraft' = creationDraft
               /\ creation'.draft = creation.draft
          ELSE /\ currentStep' = AppStep.Creation
               /\ creationDraft' = lastEvent'.result
               /\ creation'.draft = lastEvent'.result]_vars

\* A draft arrived while the user was viewing another phase than the one
\* that asked for it.
C15_Witness ==
    /\ lastEvent.name = "resume"
    /\ lastEvent.operation = "createCompositeArticle"
    /\ lastEvent.owner = "unmounted"
    /\ Truthy(lastEvent.result)
    /\ currentStep = AppStep.Creation
    /\ creation.draft = lastEvent.result

\* What callApi posts for a call.
Posted(c) == <<c.operation, c.params>>

\* The social-post requests outstanding for article.
SocialRequests(calls, article) ==
    CopiesIn(<<"generateSocialMediaPosts", Obj([article |-> article])>>,
             BagOfAll(Posted, calls))

SocialRequested(calls) ==
    {c.params.o.article : c \in {d \in BagToSet(calls) : d.operation = "generateSocialMediaPosts"}}

\* C16: a social-post request is issued only on the response to an article
\* request that returned an article, and for that article; a failed article
\* request issues none; when the social-post request fails the article stays
\* held, with no posts.
C16_SocialPostsChainAfterArticle ==
    /\ [][\A article \in SocialRequested(pending') :
             SocialRequests(pending', article) > SocialRequests(pending, article)
             => /\ Resumes({"generateFullArticle"}, Owners)
                /\ Truthy(lastEvent'.result)
                /\ article = lastEvent'.result]_vars
    /\ [][ResumesFailed({"generateFullArticle"}, Owners)
             => SocialRequested(pending') \subseteq SocialRequested(pending)]_vars
    /\ [][ResumesFailed({"generateSocialMediaPosts"}, Owners)
             => /\ creation'.fullArticle = creation.fullArticle
                /\ creation'.socialPosts = creation.socialPosts
                /\ lastEvent'.owner = "mounted"
                      => /\ Truthy(creation'.fullArticle)
                         /\ creation'.socialPosts = Null]_vars

\* The operation of a call.
Operation(c) == c.operation

\* C17: at most one request of each stage operation is outstanding.
C17_OneRequestPerOperation ==
    \A operation \in GenerationOperations :
        CopiesIn(operation, BagOfAll(Operation, pending)) <= 1

\* C18: a revision asked for with a blank instruction, or with no full
\* article held, issues no call and changes no state.
C18_BlankRevisionDoesNothing ==
    [][(/\ lastEvent'.name = "handleReviseArticle"
        /\ Trim(creation.revisionPrompt) = <<>> \/ ~Truthy(creation.fullArticle))
          => /\ creation' = creation
             /\ pending' = pending
             /\ lastEvent'.operation = "none"
             /\ UNCHANGED <<currentStep, creationDraft, preparation, analysis>>]_vars

\* The handler ran with a full article held and an instruction of
\* whitespace only.
C18_Witness ==
    /\ lastEvent.name = "handleReviseArticle"
    /\ Truthy(creation.fullArticle)
    /\ creation.revisionPrompt = <<Space>>
    /\ ~creation.isRevising

\* C19: keyword analysis is optional: a Preparation phase that holds no
\* keyword analysis offers the topic input and the competitor search.
C19_TopicOfferedWithoutKeywordAnalysis ==
    Mounted(AppStep.Preparation) => SelectTopicRendered(preparation)

\* The performance-analysis calls outstanding post the two urls only.
AnalysisCallsPostUrlsOnly ==
    \A c \in BagToSet(pending) :
        c.operation = "analyzePerformanceData" =>
            /\ c.params.t = "obj"
            /\ DOMAIN c.params.o = {"articleUrl", "socialUrl"}

\* C20: the performance analysis needs an article url only; the request
\* carries nothing of the other phases, and neither its invocation nor its
\* completion changes the active phase or the state of the Preparation and
\* Creation phases.
C20_AnalysisIsIndependent ==
    /\ []AnalysisCallsPostUrlsOnly
    /\ [][(\/ lastEvent'.name = "handleGenerateReport"
           \/ Resumes({"analyzePerformanceData"}, Owners))
             => UNCHANGED <<currentStep, creationDraft, preparation, creation>>]_vars

\* A report arrived in an app where nothing but the article url was ever
\* entered: no draft exists and the other phases are in their initial state.
C20_Witness ==
    /\ lastEvent.name = "resume"
    /\ lastEvent.operation = "analyzePerformanceData"
    /\ Truthy(analysis.analysis)
    /\ analysis.socialUrl = <<>>
    /\ creationDraft = Null
    /\ preparation = PreparationInit
    /\ creation = CreationInit(Null)

(***************************************************************************)
(* Properties of what the stages hand forward and of the race between      *)
(* responses (specification SpecUI).                                       *)
(***************************************************************************)
\* The sections of a draft are a non-empty list and the points of every
\* section are a non-empty list.
HasSectionsWithPoints(draft) ==
    LET sections == Get(Get(draft, "outline"), "sections")
    IN  /\ IsArray(sections)
        /\ sections.a # <<>>
        /\ \A i \in DOMAIN sections.a :
              LET points == Get(sections.a[i], "points")
              IN  IsArray(points) /\ points.a # <<>>

\* C21: every draft handed to the Creation phase has a non-empty list of
\* sections, each with a non-empty list of points.
C21_DraftHandedHasSectionsWithPoints ==
    Truthy(creationDraft) => HasSectionsWithPoints(creationDraft)

\* The messages of the handlers' catch branches.
ThrownMessages ==
    {KeywordsThrown, ArticlesThrown, DraftThrown, GenerateThrown, ReviseThrown, ReportThrown}

\* The message a handler sets when its stage function returned null.
FailedMessage(operation) ==
    CASE operation = "analyzeKeywords" -> KeywordsFailed
      [] operation = "findTopCompetitorArticles" -> ArticlesFailed
      [] operation = "createCompositeArticle" -> DraftFailed
      [] operation = "generateFullArticle" -> GenerateFailed
      [] operation = "reviseFullArticle" -> ReviseFailed
      [] operation = "analyzePerformanceData" -> ReportFailed

\* The error state of the component that awaits operation.
ErrorOf(operation) ==
    CASE operation \in {"analyzeKeywords", "findTopCompetitorArticles",
                        "createCompositeArticle"} -> preparation.error
      [] operation \in {"generateFullArticle", "generateSocialMediaPosts",
                        "reviseFullArticle"} -> creation.error
      [] operation = "analyzePerformanceData" -> analysis.error

\* fetch was rejected, or the response is not ok, or its body is no JSON.
NoUsableResponse(reply) ==
    reply.kind = "rejected" \/ reply.status \notin 200..299 \/ ~reply.json

\* C24: callApi never rejects: a rejected fetch, a response that is not ok
\* and a body that is no JSON all give null; whatever made a stage fail, the
\* handler sets the one message of its null branch (none for the social
\* posts), and no message of a catch branch is ever set.
C24_CallApiNeverRejects ==
    /\ [](\A operation \in GenerationOperations : \A reply \in StageReplies(operation) :
             /\ ~Awaited(reply).threw
             /\ NoUsableResponse(reply) => Awaited(reply).value = Null)
    /\ [](\A operation \in GenerationOperations : ErrorOf(operation) \notin ThrownMessages)
    /\ [][\A operation \in GenerationOperations :
             ResumesFailed({operation}, {"mounted", "reset"})
             => ErrorOf(operation)' = IF operation = "generateSocialMediaPosts"
                                      THEN ErrorOf(operation)
                                      ELSE FailedMessage(operation)]_vars

\* A stage failed and its screen shows the message of the null branch.
C24_Witness ==
    /\ lastEvent.name = "resume"
    /\ lastEvent.owner = "mounted"
    /\ lastEvent.operation = "reviseFullArticle"
    /\ lastEvent.result = Null
    /\ currentStep = AppStep.Creation
    /\ creation.error = ReviseFailed
    /\ ~creation.isRevising

\* C25: a full article is applied to the Creation phase only while the draft
\* held is the draft its request was issued for: the response to a
\* generation or revision request issued for an earlier draft is never
\* applied after a new draft has replaced it.
C25_ArticleOfHeldDraft ==
    [][(/\ Resumes({"generateFullArticle", "reviseFullArticle"}, {"mounted", "reset"})
        /\ ~StageFailed(lastEvent'.operation, lastEvent'.result))
          => /\ creation'.fullArticle = lastEvent'.result
             /\ creation'.draft = lastEvent'.held.draft]_vars

\* C26: social posts are never applied to the Creation phase while it holds
\* a full article other than the article they were requested for.
C26_PostsOfHeldArticle ==
    [][(/\ Resumes({"generateSocialMediaPosts"}, {"mounted", "reset"})
        /\ ~StageFailed(lastEvent'.operation, lastEvent'.result))
          => /\ creation'.socialPosts = lastEvent'.result
             /\ Truthy(creation'.fullArticle)
                   => creation'.fullArticle = lastEvent'.held.fullArticle]_vars

\* The topic a createCompositeArticle or findTopCompetitorArticles call
\* carries.
TopicSent(c) == Get(c.params, "topic").x

\* C27: whenever draft creation is invoked, the competitor articles sent
\* with it were discovered for the topic sent with it: a change of the
\* topic discards the competitor articles held, competitor articles that
\* arrive are those of the topic held, and so no draft creation is sent
\* with a topic that no discovery can have been sent with (a blank one).
C27_ArticlesDiscoveredForTopicSent ==
    /\ [][(/\ Truthy(preparation.competitorArticles)
           /\ preparation'.topic # preparation.topic)
             => ~Truthy(preparation'.competitorArticles)]_vars
    /\ [][\A c \in BagToSet(pending) :
            (/\ Resumes({"findTopCompetitorArticles"}, {"mounted"})
             /\ c.operation = "findTopCompetitorArticles"
             /\ pending' = Remove(pending, c)
             /\ Truthy(preparation'.competitorArticles))
               => TopicSent(c) = preparation'.topic]_vars
    /\ [](\A c \in BagToSet(pending) :
            c.operation = "createCompositeArticle" => Trim(TopicSent(c)) # <<>>)

\* C28: a click in the navigation bar that changes the phase leaves every
\* phase with its initial state (the Creation phase with the draft of the
\* application and nothing else), so a phase left and entered again starts
\* afresh; the draft held by the application and the authentication flag
\* are the same after the click; and the state of a phase that is not
\* shown stays initial, whatever responses arrive meanwhile.
C28_NavigationResetsPhaseState ==
    /\ [][lastEvent'.name = "navigate"
            => /\ preparation' = PreparationInit
               /\ creation' = CreationInit(creationDraft)
               /\ analysis' = AnalysisInit
               /\ creationDraft' = creationDraft
               /\ isAuthenticated' = isAuthenticated]_vars
    /\ [](/\ currentStep # AppStep.Preparation => preparation = PreparationInit
          /\ currentStep # AppStep.Creation => creation = CreationInit(creationDraft)
          /\ currentStep # AppStep.Analysis => analysis = AnalysisInit)

\* The Creation phase was entered again by the navigation bar after an
\* article had been generated and its revision requested in it.
C28_Witness ==
    /\ lastEvent.name = "navigate"
    /\ currentStep = AppStep.Creation
    /\ Truthy(creationDraft)
    /\ creation = CreationInit(creationDraft)
    /\ \E c \in BagToSet(pending) :
          c.operation = "reviseFullArticle" /\ c.owner = "unmounted"

\* The articles a revision gives.
RevisedArticles ==
    {callApi(reply) : reply \in StageReplies("reviseFullArticle")} \ {Null}

\* The mounted CreationStep holds a revised article, without social posts,
\* and awaits nothing.
RevisedArticleHeld ==
    /\ Mounted(AppStep.Creation)
    /\ creation.fullArticle \in RevisedArticles
    /\ creation.socialPosts = Null
    /\ ~creation.isRevising
    /\ ~creation.isGenerating

\* C29: after an article has been revised, social posts for the revised
\* article can be obtained again by a new generation call: while the
\* revised article is held without posts, the generation is offered, and
\* invoking it keeps the article it is invoked with.
C29_GenerationOfferedForRevisedArticle ==
    /\ [](RevisedArticleHeld => GenerateEnabled(creation))
    /\ [][(/\ lastEvent'.name = "handleGenerateArticle"
           /\ creation.fullArticle \in RevisedArticles)
             => creation'.fullArticle = creation.fullArticle]_vars

(***************************************************************************)
(* Properties of the transport boundary as the client sees it              *)
(* (specification Spec).                                                   *)
(***************************************************************************)
\* The members of a structured stage's result that the stage tests before
\* it returns the result.
CheckedFields(operation) ==
    CASE operation = "analyzeKeywords" -> {"keywordAnalysis", "summary"}
      [] operation = "findTopCompetitorArticles" -> {}
      [] operation = "createCompositeArticle" -> {"outline"}
      [] operation = "generateSocialMediaPosts" -> {"x", "facebook", "linkedin", "hashtags"}
      [] operation = "analyzePerformanceData" -> {"summary", "actionPlan"}

\* The oracle's text fails the normalization of the stage: it is no JSON,
\* a member the stage checks is missing, or the free text is empty.
FailsNormalization(operation, text) ==
    IF operation \in FreeTextStages
    THEN text = <<>>
    ELSE LET parsed == JSONparse(FenceReplace(text))
         IN  \/ parsed.threw
             \/ \E f \in CheckedFields(operation) : ~Truthy(Get(parsed.value, f))

\* The oracle answered the request served, and its output failed
\* normalization.
OracleOutputFailed ==
    /\ IsGenerationRequest
    /\ oracle.invoked
    /\ ~oracle.threw
    /\ FailsNormalization(ReqOperation.s, oracle.text)

\* An exception was thrown while the request was served: by a stage on its
\* parameters, by the oracle, or by verifyPassword on missing params.
ExceptionThrown ==
    \/ /\ IsGenerationRequest
       /\ Truthy(apiKey)
       /\ \/ StageThrowsBeforeOracle(ReqOperation.s, ReqParams)
          \/ oracle.invoked /\ oracle.threw
    \/ IsVerifyRequest /\ Truthy(appPassword) /\ IsNullish(ReqParams)

\* What callApi returns for the response the handler sent.
ClientResult == callApi(Reply("answered", sent[1].status, TRUE, sent[1].data))

\* C30: when the oracle's output fails normalization, the handler answers
\* 200 with data null; a status other than 200 is sent only for a method
\* that is not POST (405), an unknown operation (400), an unset credential
\* (500) and a thrown exception (500); and callApi gives null both for the
\* 200 with data null and for every error status.
C30_NormalizationFailureIs200Null ==
    /\ OracleOutputFailed => sent = <<DataResponse(Null)>>
    /\ (Len(sent) = 1 /\ sent[1].status # 200)
          => \/ req.method # "POST" /\ SentError(405)
             \/ IsUnknownOperationRequest /\ SentError(400)
             \/ ~IsVerifyRequest /\ ~Truthy(apiKey) /\ SentError(500)
             \/ ExceptionThrown /\ SentError(500)
    /\ (Len(sent) = 1 /\ (sent[1].status # 200 \/ sent[1].data = Null))
          => ClientResult = Null

\* C30's case: the oracle answers a keyword analysis with a document that
\* has no keywordAnalysis member; the handler sends 200 with data null and
\* callApi gives null.
C30_Witness ==
    /\ req.method = "POST"
    /\ ReqOperation = Str("analyzeKeywords")
    /\ oracle.invoked
    /\ oracle.text = <<"DraftFull">>
    /\ OracleOutputFailed
    /\ sent = <<DataResponse(Null)>>
    /\ ClientResult = Null

(***************************************************************************)
(* The CSV export of the Analysis phase: handleDownload and downloadCSV.   *)
(* A text is a sequence of symbols, as above; the words of the labels and  *)
(* of the column headers are one symbol each.                              *)
(***************************************************************************)
Quote == "\""
Comma == ","
Percent == "%"

MaxFieldLen == 1
MaxRows == 2

\* The free texts a report is taken to hold.
CsvSymbols == {"a", Comma, Quote, Newline}

CsvTexts == UNION {[1..n -> CsvSymbols] : n \in 0..MaxFieldLen}

\* A PerformanceAnalysis record (types.ts) with n rows in each of its lists.
Report(summary, monthlyPV, source, keyword, action, n) ==
    Obj([summary |-> Text(summary),
         keyMetrics |-> Obj([monthlyPV |-> Text(monthlyPV), users |-> Text(<<"8">>),
                             cvr |-> Text(<<"1", Percent>>), bounceRate |-> Text(<<"45", Percent>>)]),
         trafficSources |-> Arr([i \in 1..n |-> Obj([source |-> Text(source),
                                                     percentage |-> Num(50)])]),
         keywordPerformance |-> Arr([i \in 1..n |-> Obj([keyword |-> Text(keyword),
                                                         estimatedPV |-> Num(7)])]),
         actionPlan |-> Arr([i \in 1..n |-> Obj([action |-> Text(action),
                                                 justification |-> Text(<<"j">>)])])])

Reports ==
    {Report(summary, monthlyPV, source, keyword, action, n) :
        summary \in CsvTexts \ {<<>>}, monthlyPV \in CsvTexts, source \in CsvTexts,
        keyword \in CsvTexts, action \in CsvTexts, n \in 0..MaxRows}

HttpScheme == Http \o <<":", "/", "/">>

\* The article urls the report is taken to have been asked for.
ReportUrls == {Http, HttpScheme \o <<"d">>, HttpScheme \o <<"w", "w", "w", ".", "d">>}

\* s.replace(/"/g, '""')
RECURSIVE ReplaceQuotes(_)
ReplaceQuotes(s) ==
    IF s = <<>> THEN <<>>
    ELSE (IF Head(s) = Quote THEN <<Quote, Quote>> ELSE <<Head(s)>>)
         \o ReplaceQuotes(Tail(s))

\* `"${s.replace(/"/g, '""')}"`
Quoted(s) == <<Quote>> \o ReplaceQuotes(s) \o <<Quote>>

\* A number in a template literal.
NumberText(v) == <<ToString(v.n)>>

\* csvContent += row, for every row in turn.
RECURSIVE AppendEach(_)
AppendEach(rows) == IF rows = <<>> THEN <<>> ELSE Head(rows) \o AppendEach(Tail(rows))

\* rows.join(sep)
RECURSIVE Join(_, _)
Join(rows, sep) ==
    IF rows = <<>> THEN <<>>
    ELSE IF Len(rows) = 1 THEN rows[1]
    ELSE rows[1] \o sep \o Join(Tail(rows), sep)

SummaryLabel == <<"Summary">>
KeyMetricsLabel == <<"Key", Space, "Metrics">>
TrafficSourcesLabel == <<"Traffic", Space, "Sources">>
KeywordPerformanceLabel == <<"Keyword", Space, "Performance">>
ActionPlanLabel == <<"Action", Space, "Plan">>

\* The text downloadCSV assembles in csvContent.
CsvContent(data) ==
    LET keyMetrics == Get(data, "keyMetrics")
        trafficSources == Get(data, "trafficSources").a
        keywordPerformance == Get(data, "keywordPerformance").a
        actionPlan == Get(data, "actionPlan").a
        rows == [i \in DOMAIN actionPlan |->
                    Join(<<Quoted(Get(actionPlan[i], "action").x),
                           Quoted(Get(actionPlan[i], "justification").x)>>, <<Comma>>)]
    IN  <<"data:text/csv;charset=utf-8,">>
        \o SummaryLabel \o <<Newline>>
        \o Quoted(Get(data, "summary").x) \o <<Newline, Newline>>
        \o KeyMetricsLabel \o <<Newline>>
        \o <<"Metric", Comma, "Value", Newline>>
        \o <<"Monthly", Space, "PV", Comma>> \o Get(keyMetrics, "monthlyPV").x \o <<Newline>>
        \o <<"Users", Comma>> \o Get(keyMetrics, "users").x \o <<Newline>>
        \o <<"Conversion", Space, "Rate", Comma>> \o Get(keyMetrics, "cvr").x \o <<Newline>>
        \o <<"Bounce", Space, "Rate", Comma>> \o Get(keyMetrics, "bounceRate").x
        \o <<Newline, Newline>>
        \o TrafficSourcesLabel \o <<Newline>>
        \o <<"Source", Comma, "Percentage", Newline>>
        \o AppendEach([i \in DOMAIN trafficSources |->
                     Get(trafficSources[i], "source").x \o <<Comma>>
                     \o NumberText(Get(trafficSources[i], "percentage"))
                     \o <<Percent, Newline>>])
        \o <<Newline>>
        \o KeywordPerformanceLabel \o <<Newline>>
        \o <<"Keyword", Comma, "Estimated", Space, "PV", Newline>>
        \o AppendEach([i \in DOMAIN keywordPerformance |->
                     Quoted(Get(keywordPerformance[i], "keyword").x) \o <<Comma>>
                     \o NumberText(Get(keywordPerformance[i], "estimatedPV"))
                     \o <<Newline>>])
        \o <<Newline>>
        \o ActionPlanLabel \o <<Newline>>
        \o Join(<<<<"Action">>, <<"Justification">>>>, <<Comma>>) \o <<Newline>>
        \o Join(rows, <<Newline>>)

\* encodeURI: the symbols it escapes, among those of the texts here.
encodeURI(s) ==
    [i \in DOMAIN s |->
        CASE s[i] = Quote -> "%22"
          [] s[i] = Newline -> "%0A"
          [] s[i] = Space -> "%20"
          [] s[i] = Percent -> "%25"
          [] OTHER -> s[i]]

\* downloadCSV: the link it adds to the document, clicks and removes.
downloadCSV(data, filename) ==
    IF ~Truthy(data) THEN Null
    ELSE [href |-> encodeURI(CsvContent(data)), download |-> filename \o <<".csv">>]

\* The file name handleDownload derives from the article url: new URL()
\* throws unless a host follows the scheme; a leading "www." is dropped and
\* every character outside [a-z0-9.-] becomes "_".
Filename(articleUrl) ==
    LET parses == StartsWith(articleUrl, HttpScheme) /\ Len(articleUrl) > Len(HttpScheme)
        hostname == Drop(articleUrl, Len(HttpScheme))
        www == <<"w", "w", "w", ".">>
        domain == IF StartsWith(hostname, www) THEN Drop(hostname, Len(www)) ELSE hostname
        sanitizedDomain == [i \in DOMAIN domain |->
                              IF domain[i] \in {"d", "w", "."} THEN domain[i] ELSE "_"]
    IN  IF articleUrl # <<>> /\ parses
        THEN <<"performance_report_">> \o sanitizedDomain
        ELSE <<"performance_report">>

\* handleDownload, the onClick of the download button, which is rendered
\* with the report.
handleDownload ==
    /\ Mounted(AppStep.Analysis)
    /\ Truthy(analysis.analysis)
    /\ link' = downloadCSV(analysis.analysis, Filename(analysis.articleUrl))
    /\ lastEvent' = Handled("handleDownload", NoStageCall)
    /\ UNCHANGED <<currentStep, creationDraft, preparation, creation, analysis, pending, revised>>
    /\ UNCHANGED <<envVars, handlerVars, gateVars, normVars>>

\* The Analysis phase showing a report.
InitCsv ==
    /\ appPassword = Secret
    /\ apiKey = Str("key")
    /\ HandlerInit
    /\ session = 1
    /\ mounts = 1
    /\ sessionFlag = AUTH_TRUE
    /\ isAuthenticated = TRUE
    /\ password = ""
    /\ error = ""
    /\ isLoading = FALSE
    /\ call = NoCall
    /\ NormIdle
    /\ currentStep = AppStep.Analysis
    /\ creationDraft = Null
    /\ preparation = PreparationInit
    /\ creation = CreationInit(Null)
    /\ \E articleUrl \in ReportUrls, report \in Reports :
          analysis = [AnalysisInit EXCEPT !.articleUrl = articleUrl, !.analysis = report]
    /\ pending = EmptyBag
    /\ lastEvent = NoEvent
    /\ revised = FALSE
    /\ CsvIdle

NextCsv == handleDownload

SpecCsv == InitCsv /\ [][NextCsv]_vars

(***************************************************************************)
(* Properties of the CSV export (specification SpecCsv).                   *)
(***************************************************************************)
\* The content of the file the link downloads: the href without its
\* data-url prefix, percent-decoded.
Exported ==
    LET body == Tail(link.href)
    IN  [i \in DOMAIN body |->
            CASE body[i] = "%22" -> Quote
              [] body[i] = "%0A" -> Newline
              [] body[i] = "%20" -> Space
              [] body[i] = "%25" -> Percent
              [] OTHER -> body[i]]

\* A reader of CSV: a comma ends a field and a newline ends a record unless
\* they stand between quotes; between quotes a doubled quote is one quote.
\* Its state: the symbol to read next, whether it stands between quotes, the
\* field and the record being read, and the records read.
ReaderInit == [i |-> 1, quoted |-> FALSE, field |-> <<>>, record |-> <<>>, records |-> <<>>]

ReadSymbol(s, r) ==
    LET c == s[r.i]
    IN  CASE r.quoted /\ c # Quote ->
                [r EXCEPT !.i = r.i + 1, !.field = r.field \o <<c>>]
          [] r.quoted /\ c = Quote /\ r.i < Len(s) /\ s[r.i + 1] = Quote ->
                [r EXCEPT !.i = r.i + 2, !.field = r.field \o <<Quote>>]
          [] r.quoted /\ c = Quote /\ ~(r.i < Len(s) /\ s[r.i + 1] = Quote) ->
                [r EXCEPT !.i = r.i + 1, !.quoted = FALSE]
          [] ~r.quoted /\ c = Quote ->
                [r EXCEPT !.i = r.i + 1, !.quoted = TRUE]
          [] ~r.quoted /\ c = Comma ->
                [r EXCEPT !.i = r.i + 1, !.field = <<>>, !.record = r.record \o <<r.field>>]
          [] ~r.quoted /\ c = Newline ->
                [r EXCEPT !.i = r.i + 1, !.field = <<>>, !.record = <<>>,
                          !.records = r.records \o <<r.record \o <<r.field>>>>]
          [] OTHER ->
                [r EXCEPT !.i = r.i + 1, !.field = r.field \o <<c>>]

RECURSIVE ReadCsv(_, _)
ReadCsv(s, r) ==
    IF r.i > Len(s) THEN r.records \o <<r.record \o <<r.field>>>>
    ELSE ReadCsv(s, ReadSymbol(s, r))

Records == ReadCsv(Exported, ReaderInit)

Labels ==
    <<SummaryLabel, KeyMetricsLabel, TrafficSourcesLabel, KeywordPerformanceLabel,
      ActionPlanLabel>>

IsLabel(record) == \E i \in DOMAIN Labels : record = <<Labels[i]>>

\* The record the exported file holds for the row of a list.
KeywordRecord(item) ==
    <<Get(item, "keyword").x, NumberText(Get(item, "estimatedPV"))>>

ActionRecord(item) == <<Get(item, "action").x, Get(item, "justification").x>>

\* The records that follow label, up to the empty line or the end of the file.
SectionOf(records, label) ==
    LET at == {i \in DOMAIN records : records[i] = <<label>>}
        first == CHOOSE i \in at : \A j \in at : i <= j
        ends == {i \in DOMAIN records : i > first /\ records[i] = <<<<>>>>}
                \cup {Len(records) + 1}
        last == CHOOSE i \in ends : \A j \in ends : i <= j
    IN  IF at = {} THEN <<>> ELSE SubSeq(records, first + 1, last - 1)

\* The quoted fields (summary, keywords, actions, justifications) read back
\* as the texts of the report data.
QuotedFieldsReadBack(records, data) ==
    LET keywordPerformance == Get(data, "keywordPerformance").a
        actionPlan == Get(data, "actionPlan").a
    IN  /\ SectionOf(records, SummaryLabel) = <<<<Get(data, "summary").x>>>>
        /\ Tail(SectionOf(records, KeywordPerformanceLabel))
              = [i \in DOMAIN keywordPerformance |-> KeywordRecord(keywordPerformance[i])]
        /\ Tail(SectionOf(records, ActionPlanLabel))
              = [i \in DOMAIN actionPlan |-> ActionRecord(actionPlan[i])]

\* The five labels are read once each and in their order.
FiveLabelsInOrder(records) ==
    SelectSeq(records, IsLabel) = [i \in DOMAIN Labels |-> <<Labels[i]>>]

\* C22: the exported file holds the five labels, once each and in their
\* order, each as a line of its own, and the quoted fields read back as the
\* texts of the report: every quote in them was written doubled.
C22_FiveSectionsInOrderQuotesDoubled ==
    link # Null =>
        /\ FiveLabelsInOrder(Records)
        /\ QuotedFieldsReadBack(Records, analysis.analysis)

\* The rows of the key metrics and of the traffic sources are all there and
\* have two columns each.
TwoColumnRows(records, data) ==
    LET metrics == SectionOf(records, KeyMetricsLabel)
        sources == SectionOf(records, TrafficSourcesLabel)
    IN  /\ Len(metrics) = 5
        /\ Len(sources) = 1 + Len(Get(data, "trafficSources").a)
        /\ \A i \in DOMAIN metrics : Len(metrics[i]) = 2
        /\ \A i \in DOMAIN sources : Len(sources[i]) = 2

\* C23: in the exported file the rows of the key metrics and of the traffic
\* sources have two columns each, whatever the texts of the report hold.
C23_MetricAndSourceRowsHaveTwoColumns ==
    link # Null => TwoColumnRows(Records, analysis.analysis)

=============================================================================
